---- MODULE Spec2Model ----
(***************************************************************************)
(* SenseHub: sensor ingest pipeline, calibration, sliding window buffer,  *)
(* storage task queue with its worker thread, and cooperative shutdown.   *)
(*                                                                         *)
(* Time is the monotonic clock (std::time::Instant) in whole seconds.      *)
(* Sensor timestamps are the device's millisecond timestamps (i64).        *)
(* A sample rate (f64) is kept as the exact quotient num/den.              *)
(* Option<T> is a sequence: <<>> is None and <<v>> is Some(v).             *)
(***************************************************************************)
EXTENDS Integers, Sequences, FiniteSets, TLC

VARIABLES
  now,                    \* Instant::now(), seconds
  data_channel,           \* bounded channel DataPoint: mqtt thread -> driver
  audio_channel,          \* bounded channel AudioData: mqtt thread -> driver
  is_calibrating,         \* CalibrationState
  calibration_data,
  calibration_start_time,
  calculated_sample_rate,
  is_collecting,          \* CollectionState
  is_paused,
  max_samples,            \* WaveformPlot
  buffer_x,               \* the six value deques, pushed and popped together
  buffer_timestamp,
  audio_max_samples,
  audio_buffer,
  audio_timestamps,
  pushed,                 \* history: samples given to add_data since WaveformPlot::new
  last_audio_metadata,    \* DatabaseState
  save_status,
  current_session_id,
  auto_save_enabled,
  auto_save_last_time,
  export_status,          \* ExportState
  export_result_receiver, \* Some(id of the task whose response channel the driver holds)
  export_responses,       \* task ids whose ExportResult sits in their response channel
  db_task_queue,          \* bounded channel DatabaseTask: driver -> storage worker
  save_result_channel,    \* bounded channel SaveResult: storage worker -> driver
  next_task_id,           \* history: tasks accepted so far are 1..next_task_id-1
  started,                \* history: task ids in the order the worker began them
  finished,               \* history: task ids in the order the worker completed them
  worker_pc,              \* storage worker thread
  worker_task,
  worker_result,
  db_sessions,            \* session ids with rows in the store
  exported_files,         \* session ids with a CSV file
  shutdown_signal,        \* Arc<AtomicBool>
  main_pc,                \* controlling thread
  mqtt_pc,                \* ingest thread
  mqtt_pending,
  retry_count,
  acc_data,               \* rows of the queried session: get_accelerometer_data_by_session
  audio_data_raw,         \* rows of the queried session: get_audio_data_by_session
  aligned_history,        \* Some(what handle_load_aligned_history_data returned)
  csv_file,               \* Some(data rows of the session's CSV file)
  sub_saves,              \* history: the store calls of the last executed task, with outcomes
  tick_pc,                \* driving thread inside handle_data_processing: which loop it is in
  command_channel,        \* mpsc channel AudioCommand: AudioPlayer -> audio worker
  status_channel,         \* mpsc channel AudioStatus: audio worker -> AudioPlayer
  current_status,         \* Arc<Mutex<AudioStatus>> shared by both
  audio_worker_pc,        \* audio worker thread
  player_audio_data,      \* locals of audio_worker_thread
  playback_state,
  sink,                   \* Some([empty |-> the sink has played all of its source])
  worker_status,          \* Some(status the worker stored in the cell and has yet to send)
  received_status,        \* Some(status update_status received and has yet to store)
  commands_sent,          \* history: number of AudioPlayer calls made
  history,                \* HistoryVisualizationState
  query_responses         \* task ids of queries whose response sits in its response channel

pipelineVars == <<now, data_channel, audio_channel, is_calibrating, calibration_data,
                  calibration_start_time, calculated_sample_rate, is_collecting, is_paused>>
plotVars == <<max_samples, buffer_x, buffer_timestamp, audio_max_samples, audio_buffer,
              audio_timestamps, pushed>>
driverVars == <<last_audio_metadata, save_status, current_session_id, auto_save_enabled,
                auto_save_last_time, export_status, export_result_receiver>>
queueVars == <<db_task_queue, next_task_id>>
workerVars == <<save_result_channel, export_responses, started, finished, worker_pc,
                worker_task, worker_result, db_sessions, exported_files>>
threadVars == <<shutdown_signal, main_pc, mqtt_pc, mqtt_pending, retry_count>>
queryVars == <<acc_data, audio_data_raw, aligned_history, csv_file>>
playerVars == <<command_channel, status_channel, current_status, audio_worker_pc,
                player_audio_data, playback_state, sink, worker_status, received_status,
                commands_sent>>
historyVars == <<history, query_responses>>
vars == <<pipelineVars, plotVars, driverVars, queueVars, workerVars, threadVars, queryVars,
          sub_saves, tick_pc, playerVars, historyVars>>

----------------------------------------------------------------------------
(* Bounds of the model *)
MaxTime == 9              \* the clock stops here
DataChanCap == 2          \* capacity of the sensor ingest channel
AudioChanCap == 1         \* capacity of the audio ingest channel
MaxCalibrationLen == 3    \* the source stops while this many samples are accumulated
MaxAudioLen == 2          \* the source stops while this many audio samples are buffered
MaxPushes == 6            \* add_data calls explored on one buffer
MaxLivePushes == 2        \* the source stops while this many samples were pushed live
MaxRate == 2              \* sample rates WaveformPlot::new is tried with
MaxSaveTime == 18         \* the clock of the auto-save specification stops here
MaxCommands == 3          \* AudioPlayer calls made by the driving thread
MaxStatusLen == 2         \* the worker's periodic status waits while this many are unread
MaxSessions == 3          \* sessions in the store
MaxQueries == 6           \* the user stops asking once this many tasks were accepted
MaxChunkLen == 4          \* samples of one audio chunk given to add_audio_samples

MaxAccLen == 3            \* accelerometer rows of a queried session
MaxAlignTime == 4         \* latest timestamp (ms) of a queried session
MaxChunks == 2            \* audio rows of a queried session

TaskQueueCap == 2         \* capacity of the task channel
ResultChanCap == 1        \* capacity of the save-result channel

(* Program constants *)
MaxRetries == 5
DefaultAccSampleRate == 400
WarmupSeconds == 2
CalibrationEndSeconds == 8
WindowDurationSeconds == 5
AudioSampleRate == 16000
InitialSampleRate == 393

\* the user stops submitting once this many tasks were accepted
MaxTasks == TaskQueueCap + 1

\* auto_save_interval_ms = window_duration_seconds * 1000.0
AutoSaveIntervalMs == WindowDurationSeconds * 1000

None == <<>>
Some(v) == <<v>>
IsSome(o) == o # <<>>
Unwrap(o) == o[1]

Min(a, b) == IF a < b THEN a ELSE b
Max(a, b) == IF a > b THEN a ELSE b

SensorValues == {7}
Timestamps == {0, 2000}
DataPoints == [vals : SensorValues, timestamp : Timestamps]
AudioChunks == [samples : {<<100>>}, timestamp : {0}, sample_rate : {AudioSampleRate},
                decodable : BOOLEAN]

----------------------------------------------------------------------------
(* WaveformPlot *)

\* (window_seconds * sample_rate as f64) as usize
CapacityFor(window_seconds, sample_rate) == window_seconds * sample_rate

\* the same expression for a window of num/den seconds, den a power of two
\* (the f64 product is exact and the cast truncates it)
CapacityForFraction(window_seconds, sample_rate) ==
  (window_seconds.num * sample_rate) \div window_seconds.den

\* add_data evicting from the tail instead of the head
AddData_EvictNewest(bx, bt, cap, d) ==
  LET nx == Append(bx, d.vals)
      nt == Append(bt, d.timestamp)
  IN IF Len(nx) > cap THEN [x |-> SubSeq(nx, 1, Len(nx) - 1), t |-> SubSeq(nt, 1, Len(nt) - 1)]
                      ELSE [x |-> nx, t |-> nt]

\* WaveformPlot::add_data on the value deques bx and the timestamp deque bt
AddData(bx, bt, cap, d) ==
  LET nx == Append(bx, d.vals)
      nt == Append(bt, d.timestamp)
  IN IF Len(nx) > cap THEN [x |-> Tail(nx), t |-> Tail(nt)]
                      ELSE [x |-> nx, t |-> nt]

\* WaveformPlot::get_current_accelerometer_data: rows i < buffer_x.len() that
\* exist in every deque
CurrentAccelerometerData(bx, bt) ==
  LET idx == {i \in 1..Len(bx) : i <= Len(bt)}
      F[i \in 0..Len(bx)] ==
        IF i = 0 THEN <<>>
        ELSE IF i \in idx THEN Append(F[i-1], [vals |-> bx[i], timestamp |-> bt[i]])
        ELSE F[i-1]
  IN F[Len(bx)]

get_current_accelerometer_data == CurrentAccelerometerData(buffer_x, buffer_timestamp)

\* the last n elements of s
LastN(s, n) == SubSeq(s, Len(s) - Min(n, Len(s)) + 1, Len(s))

\* add_audio_samples evicting one sample only, as add_data does
DropFrontOnce(q, cap) == IF Len(q) > cap THEN Tail(q) ELSE q

\* WaveformPlot::add_audio_samples: normalise, stamp, extend, evict from the front
RECURSIVE DropFrontWhileOver(_, _)
DropFrontWhileOver(q, cap) == IF Len(q) > cap THEN DropFrontWhileOver(Tail(q), cap) ELSE q

AudioSampleTimestamps(n, base_timestamp, sample_rate) ==
  [i \in 1..n |-> base_timestamp + ((i - 1) * 1000) \div sample_rate]

AddAudioSamples(ab, at, cap, samples, base_timestamp, sample_rate) ==
  [a |-> DropFrontWhileOver(ab \o samples, cap),
   t |-> DropFrontWhileOver(at \o AudioSampleTimestamps(Len(samples), base_timestamp, sample_rate), cap)]

----------------------------------------------------------------------------
(* Calibration *)

\* sample_rate as usize
RateAsUsize(r) == r.num \div r.den

\* the rate computed from the sample count instead of the interval count
SampleRateOf_CountAll(sample_count, time_diff_ms) == [num |-> sample_count * 1000, den |-> time_diff_ms]

\* (sample_count - 1.0) * 1000.0 / time_diff_ms as f64
SampleRateOf(sample_count, time_diff_ms) == [num |-> (sample_count - 1) * 1000, den |-> time_diff_ms]

\* process_calibration_data without the warm-up check
ProcessCalibrationData_NoWarmup(c, d) ==
  LET start == IF c.start = None THEN Some(now) ELSE c.start
      elapsed == now - Unwrap(start)
  IN [start |-> start,
      data  |-> IF elapsed < CalibrationEndSeconds THEN Append(c.data, d) ELSE c.data]

\* CalibrationHandler::process_calibration_data for one sample; c is the pair
\* [start, data] of calibration_start_time and calibration_data
ProcessCalibrationData(c, d) ==
  LET start == IF c.start = None THEN Some(now) ELSE c.start
      elapsed == now - Unwrap(start)
  IN [start |-> start,
      data  |-> IF elapsed >= WarmupSeconds /\ elapsed < CalibrationEndSeconds
                THEN Append(c.data, d) ELSE c.data]

\* the while-let loop of handle_calibration over the records in the channel
RECURSIVE DrainCalibration(_, _)
DrainCalibration(c, chan) ==
  IF chan = <<>> THEN c
  ELSE DrainCalibration(ProcessCalibrationData(c, Head(chan)), Tail(chan))

\* complete_calibration keeping the old plot
CompleteCalibration_KeepPlot(sample_rate) ==
  /\ is_calibrating' = FALSE
  /\ calculated_sample_rate' = Some(sample_rate)
  /\ is_collecting' = TRUE
  /\ calibration_data' = <<>>
  /\ calibration_start_time' = None
  /\ UNCHANGED plotVars

\* AppState::complete_calibration
CompleteCalibration(sample_rate) ==
  /\ is_calibrating' = FALSE
  /\ calculated_sample_rate' = Some(sample_rate)
  /\ is_collecting' = TRUE
  /\ max_samples' = CapacityFor(WindowDurationSeconds, RateAsUsize(sample_rate))
  /\ audio_max_samples' = CapacityFor(WindowDurationSeconds, AudioSampleRate)
  /\ buffer_x' = <<>>
  /\ buffer_timestamp' = <<>>
  /\ audio_buffer' = <<>>
  /\ audio_timestamps' = <<>>
  /\ pushed' = <<>>
  /\ calibration_data' = <<>>
  /\ calibration_start_time' = None

\* the abort paths of calculate_sample_rate_from_timestamps
AbortCalibration(c) ==
  /\ is_calibrating' = FALSE
  /\ calibration_data' = c.data
  /\ calibration_start_time' = c.start
  /\ UNCHANGED <<calculated_sample_rate, is_collecting, plotVars>>

\* CalibrationHandler::calculate_sample_rate_from_timestamps on the drained state c
CalculateSampleRateFromTimestamps(c) ==
  IF Len(c.data) < 2 THEN AbortCalibration(c)
  ELSE LET time_diff_ms == c.data[Len(c.data)].timestamp - c.data[1].timestamp
       IN IF time_diff_ms > 0
          THEN CompleteCalibration(SampleRateOf(Len(c.data), time_diff_ms))
          ELSE AbortCalibration(c)

\* handle_calibration without its audio loop: the audio records stay queued
HandleCalibration_KeepAudio ==
  LET c == DrainCalibration([start |-> calibration_start_time, data |-> calibration_data],
                            data_channel)
  IN /\ data_channel' = <<>>
     /\ audio_channel' = audio_channel
     /\ IF IsSome(c.start) /\ now - Unwrap(c.start) >= CalibrationEndSeconds /\ c.data # <<>>
        THEN CalculateSampleRateFromTimestamps(c)
        ELSE /\ calibration_data' = c.data
             /\ calibration_start_time' = c.start
             /\ UNCHANGED <<is_calibrating, calculated_sample_rate, is_collecting, plotVars>>
     /\ UNCHANGED <<now, is_paused, driverVars, queueVars>>

\* CalibrationHandler::handle_calibration
HandleCalibration ==
  LET c == DrainCalibration([start |-> calibration_start_time, data |-> calibration_data],
                            data_channel)
  IN /\ data_channel' = <<>>
     /\ audio_channel' = <<>>
     /\ IF IsSome(c.start) /\ now - Unwrap(c.start) >= CalibrationEndSeconds /\ c.data # <<>>
        THEN CalculateSampleRateFromTimestamps(c)
        ELSE /\ calibration_data' = c.data
             /\ calibration_start_time' = c.start
             /\ UNCHANGED <<is_calibrating, calculated_sample_rate, is_collecting, plotVars>>
     /\ UNCHANGED <<now, is_paused, driverVars, queueVars>>

----------------------------------------------------------------------------
(* Save submission *)

\* crossbeam try_send on the task channel: the receiver lives in the worker thread
\* the worker thread has returned, Ok(()) or Err
WorkerGone == worker_pc \in {"exited", "failed"}

\* try_send reporting Full only past the capacity
TaskTrySend_OffByOne ==
  IF WorkerGone THEN "Disconnected"
  ELSE IF Len(db_task_queue) > TaskQueueCap THEN "Full"
  ELSE "Ok"

\* try_send that does not notice a dropped receiver
TaskTrySend_IgnoreDisconnect ==
  IF Len(db_task_queue) >= TaskQueueCap THEN "Full" ELSE "Ok"

TaskTrySend ==
  IF WorkerGone THEN "Disconnected"
  ELSE IF Len(db_task_queue) >= TaskQueueCap THEN "Full"
  ELSE "Ok"

FrontOf(q) == IF q = <<>> THEN None ELSE Some(q[1])
BackOf(q) == IF q = <<>> THEN None ELSE Some(q[Len(q)])

\* DatabaseTask::Save built from the snapshot accessors
SaveTask(bx, bt, ab, at, meta) ==
  [id |-> next_task_id, kind |-> "Save",
   accelerometer_data |-> CurrentAccelerometerData(bx, bt),
   audio_data |-> ab,
   audio_metadata |-> meta,
   audio_start_timestamp |-> FrontOf(at),
   audio_end_timestamp |-> BackOf(at),
   session_id |-> current_session_id]

\* SensorDataApp::save_current_window_data_async on the plot (bx, bt, ab, at)
SaveCurrentWindowDataAsync(bx, bt, ab, at, meta) ==
  IF CurrentAccelerometerData(bx, bt) = <<>> /\ ab = <<>>
  THEN /\ save_status' = "No data to save"
       /\ UNCHANGED queueVars
  ELSE CASE TaskTrySend = "Ok" ->
              /\ db_task_queue' = Append(db_task_queue, SaveTask(bx, bt, ab, at, meta))
              /\ next_task_id' = next_task_id + 1
              /\ save_status' = "Saving data..."
         [] TaskTrySend = "Full" ->
              /\ save_status' = "Database queue is full, try again later"
              /\ UNCHANGED queueVars
         [] TaskTrySend = "Disconnected" ->
              /\ save_status' = "Database connection lost! Please restart the application."
              /\ UNCHANGED queueVars

\* a check_auto_save that does not wait for the interval
CheckAutoSave_IgnoreInterval(bx, bt, ab, at, meta) ==
  IF ~auto_save_enabled
  THEN UNCHANGED <<save_status, queueVars, auto_save_last_time>>
  ELSE /\ SaveCurrentWindowDataAsync(bx, bt, ab, at, meta)
       /\ auto_save_last_time' = Some(now)

\* SensorDataApp::check_auto_save, run after handle_collection left the plot (bx, bt, ab, at)
CheckAutoSave(bx, bt, ab, at, meta) ==
  IF ~auto_save_enabled
  THEN UNCHANGED <<save_status, queueVars, auto_save_last_time>>
  ELSE IF auto_save_last_time = None
  THEN /\ auto_save_last_time' = Some(now)
       /\ UNCHANGED <<save_status, queueVars>>
  ELSE IF (now - Unwrap(auto_save_last_time)) * 1000 >= AutoSaveIntervalMs
  THEN /\ SaveCurrentWindowDataAsync(bx, bt, ab, at, meta)
       /\ auto_save_last_time' = Some(now)
  ELSE UNCHANGED <<save_status, queueVars, auto_save_last_time>>

\* SensorDataApp::toggle_auto_save (status bar button)
ToggleAutoSave ==
  /\ main_pc = "gui"
  /\ auto_save_enabled' = ~auto_save_enabled
  /\ auto_save_last_time' = IF ~auto_save_enabled THEN Some(now) ELSE None
  /\ UNCHANGED <<pipelineVars, plotVars, last_audio_metadata, save_status, current_session_id,
                 export_status, export_result_receiver, queueVars, workerVars, threadVars>>
  /\ UNCHANGED <<queryVars, sub_saves, tick_pc, playerVars, historyVars>>

----------------------------------------------------------------------------
(* Live collection *)

\* the sensor loop of DataCollectionHandler::handle_collection
RECURSIVE DrainData(_, _)
DrainData(b, chan) ==
  IF chan = <<>> THEN b
  ELSE DrainData(AddData(b.x, b.t, max_samples, Head(chan)), Tail(chan))

\* DataCollectionHandler::process_audio_data: base64 decode, i16 samples, add
ProcessAudioData(b, chunk) ==
  IF chunk.decodable /\ chunk.samples # <<>>
  THEN AddAudioSamples(b.a, b.t, audio_max_samples, chunk.samples, chunk.timestamp, chunk.sample_rate)
  ELSE b

\* the audio loop of handle_collection
RECURSIVE DrainAudio(_, _)
DrainAudio(b, chan) ==
  IF chan = <<>> THEN b
  ELSE DrainAudio(ProcessAudioData(b, Head(chan)), Tail(chan))

\* DataCollectionHandler::handle_collection followed by check_auto_save
HandleCollection ==
  LET b == DrainData([x |-> buffer_x, t |-> buffer_timestamp], data_channel)
      a == DrainAudio([a |-> audio_buffer, t |-> audio_timestamps], audio_channel)
      meta == IF audio_channel = <<>> THEN last_audio_metadata
              ELSE Some(audio_channel[Len(audio_channel)])
  IN /\ buffer_x' = b.x
     /\ buffer_timestamp' = b.t
     /\ pushed' = pushed \o data_channel
     /\ audio_buffer' = a.a
     /\ audio_timestamps' = a.t
     /\ last_audio_metadata' = meta
     /\ data_channel' = <<>>
     /\ audio_channel' = <<>>
     /\ CheckAutoSave(b.x, b.t, a.a, a.t, meta)
     /\ UNCHANGED <<now, is_calibrating, calibration_data, calibration_start_time,
                    calculated_sample_rate, is_collecting, is_paused, max_samples,
                    audio_max_samples, current_session_id, auto_save_enabled,
                    export_status, export_result_receiver>>

\* paused and stopped branches that route the records like the collecting branch
DiscardIngest_Collect == HandleCollection

\* the paused and the stopped branch of handle_data_processing
DiscardIngest ==
  /\ data_channel' = <<>>
  /\ audio_channel' = <<>>
  /\ UNCHANGED <<now, is_calibrating, calibration_data, calibration_start_time,
                 calculated_sample_rate, is_collecting, is_paused, plotVars, driverVars, queueVars>>

\* SensorDataApp::handle_data_processing, once per frame
HandleDataProcessing ==
  /\ main_pc = "gui"
  /\ IF is_calibrating THEN HandleCalibration
     ELSE IF is_collecting /\ ~is_paused THEN HandleCollection
     ELSE DiscardIngest
  /\ UNCHANGED <<workerVars, threadVars>>
  /\ UNCHANGED <<queryVars, sub_saves, tick_pc, playerVars, historyVars>>

\* handle_data_processing entered by a frame of a calibrated pipeline
TickBegin ==
  /\ main_pc = "gui"
  /\ tick_pc = "idle"
  /\ ~is_calibrating
  /\ tick_pc' = "data"
  /\ UNCHANGED <<pipelineVars, plotVars, driverVars, queueVars, workerVars, threadVars>>
  /\ UNCHANGED <<queryVars, sub_saves, playerVars, historyVars>>

\* one turn of `while let Ok(data) = data_receiver.try_recv()`: the record is added
\* when collecting and not paused and dropped otherwise; Err ends the loop.
\* The history of pushes is not recorded by the stepwise frame.
DataRecvStep ==
  /\ tick_pc = "data"
  /\ IF data_channel = <<>>
     THEN /\ tick_pc' = "audio"
          /\ UNCHANGED <<data_channel, buffer_x, buffer_timestamp>>
     ELSE /\ data_channel' = Tail(data_channel)
          /\ tick_pc' = "data"
          /\ IF is_collecting /\ ~is_paused
             THEN LET b == AddData(buffer_x, buffer_timestamp, max_samples, Head(data_channel))
                  IN /\ buffer_x' = b.x
                     /\ buffer_timestamp' = b.t
             ELSE UNCHANGED <<buffer_x, buffer_timestamp>>
  /\ UNCHANGED <<now, audio_channel, is_calibrating, calibration_data, calibration_start_time,
                 calculated_sample_rate, is_collecting, is_paused, max_samples,
                 audio_max_samples, audio_buffer, audio_timestamps, pushed, driverVars,
                 queueVars, workerVars, threadVars>>
  /\ UNCHANGED <<queryVars, sub_saves, playerVars, historyVars>>

\* one turn of `while let Ok(audio_data) = audio_receiver.try_recv()`; Err ends the
\* loop and the frame, after check_auto_save when collecting and not paused
AudioRecvStep ==
  /\ tick_pc = "audio"
  /\ IF audio_channel = <<>>
     THEN /\ tick_pc' = "idle"
          /\ IF is_collecting /\ ~is_paused
             THEN CheckAutoSave(buffer_x, buffer_timestamp, audio_buffer, audio_timestamps,
                                last_audio_metadata)
             ELSE UNCHANGED <<save_status, queueVars, auto_save_last_time>>
          /\ UNCHANGED <<audio_channel, audio_buffer, audio_timestamps, last_audio_metadata>>
     ELSE /\ audio_channel' = Tail(audio_channel)
          /\ tick_pc' = "audio"
          /\ IF is_collecting /\ ~is_paused
             THEN LET a == ProcessAudioData([a |-> audio_buffer, t |-> audio_timestamps],
                                            Head(audio_channel))
                  IN /\ audio_buffer' = a.a
                     /\ audio_timestamps' = a.t
                     /\ last_audio_metadata' = Some(Head(audio_channel))
             ELSE UNCHANGED <<audio_buffer, audio_timestamps, last_audio_metadata>>
          /\ UNCHANGED <<save_status, queueVars, auto_save_last_time>>
  /\ UNCHANGED <<now, data_channel, is_calibrating, calibration_data, calibration_start_time,
                 calculated_sample_rate, is_collecting, is_paused, max_samples,
                 audio_max_samples, buffer_x, buffer_timestamp, pushed, current_session_id,
                 auto_save_enabled, export_status, export_result_receiver, workerVars,
                 threadVars>>
  /\ UNCHANGED <<queryVars, sub_saves, playerVars, historyVars>>

\* AppState::stop_collection
StopCollection ==
  /\ main_pc = "gui"
  /\ is_collecting' = FALSE
  /\ is_paused' = FALSE
  /\ UNCHANGED <<now, data_channel, audio_channel, is_calibrating, calibration_data,
                 calibration_start_time, calculated_sample_rate, plotVars, driverVars,
                 queueVars, workerVars, threadVars>>
  /\ UNCHANGED <<queryVars, sub_saves, tick_pc, playerVars, historyVars>>

\* AppState::start_collection
StartCollection ==
  /\ main_pc = "gui"
  /\ is_collecting' = TRUE
  /\ is_paused' = FALSE
  /\ UNCHANGED <<now, data_channel, audio_channel, is_calibrating, calibration_data,
                 calibration_start_time, calculated_sample_rate, plotVars, driverVars,
                 queueVars, workerVars, threadVars>>
  /\ UNCHANGED <<queryVars, sub_saves, tick_pc, playerVars, historyVars>>

\* a pause_collection without its test of is_collecting
PauseCollection_Unguarded ==
  /\ main_pc = "gui"
  /\ is_paused' = TRUE
  /\ UNCHANGED is_collecting
  /\ UNCHANGED <<now, data_channel, audio_channel, is_calibrating, calibration_data,
                 calibration_start_time, calculated_sample_rate, plotVars, driverVars,
                 queueVars, workerVars, threadVars>>
  /\ UNCHANGED <<queryVars, sub_saves, tick_pc, playerVars, historyVars>>

\* AppState::pause_collection
PauseCollection ==
  /\ main_pc = "gui"
  /\ is_paused' = IF is_collecting THEN TRUE ELSE is_paused
  /\ UNCHANGED is_collecting
  /\ UNCHANGED <<now, data_channel, audio_channel, is_calibrating, calibration_data,
                 calibration_start_time, calculated_sample_rate, plotVars, driverVars,
                 queueVars, workerVars, threadVars>>
  /\ UNCHANGED <<queryVars, sub_saves, tick_pc, playerVars, historyVars>>

\* AppState::resume_collection
ResumeCollection ==
  /\ main_pc = "gui"
  /\ is_paused' = IF is_collecting THEN FALSE ELSE is_paused
  /\ UNCHANGED is_collecting
  /\ UNCHANGED <<now, data_channel, audio_channel, is_calibrating, calibration_data,
                 calibration_start_time, calculated_sample_rate, plotVars, driverVars,
                 queueVars, workerVars, threadVars>>
  /\ UNCHANGED <<queryVars, sub_saves, tick_pc, playerVars, historyVars>>

\* AppState::reset_calibration
ResetCalibration ==
  /\ main_pc = "gui"
  /\ calibration_data' = <<>>
  /\ calibration_start_time' = None
  /\ calculated_sample_rate' = None
  /\ is_calibrating' = TRUE
  /\ UNCHANGED <<now, data_channel, audio_channel, is_collecting, is_paused, plotVars,
                 driverVars, queueVars, workerVars, threadVars>>
  /\ UNCHANGED <<queryVars, sub_saves, tick_pc, playerVars, historyVars>>

\* AppState::complete_calibration called with sample_rate
CompleteCalibrationCall(sample_rate) ==
  /\ main_pc = "gui"
  /\ CompleteCalibration(sample_rate)
  /\ UNCHANGED <<now, data_channel, audio_channel, is_paused, driverVars, queueVars,
                 workerVars, threadVars>>
  /\ UNCHANGED <<queryVars, sub_saves, tick_pc, playerVars, historyVars>>

\* the pause / resume button of render_status_bar
PauseResumeClick ==
  /\ main_pc = "gui"
  /\ is_collecting /\ ~is_calibrating
  /\ is_paused' = ~is_paused
  /\ UNCHANGED <<now, data_channel, audio_channel, is_calibrating, calibration_data,
                 calibration_start_time, calculated_sample_rate, is_collecting,
                 plotVars, driverVars, queueVars, workerVars, threadVars>>
  /\ UNCHANGED <<queryVars, sub_saves, tick_pc, playerVars, historyVars>>

\* a Space handler that saves while paused
KeyboardSpace_IgnorePause(text_enabled) ==
  /\ main_pc = "gui"
  /\ next_task_id <= MaxTasks
  /\ IF is_collecting
     THEN SaveCurrentWindowDataAsync(buffer_x, buffer_timestamp, audio_buffer,
                                     audio_timestamps, last_audio_metadata)
     ELSE /\ save_status' = IF is_paused THEN "Data collection is paused"
                            ELSE IF ~text_enabled THEN "Not collecting data"
                            ELSE save_status
          /\ UNCHANGED queueVars
  /\ UNCHANGED <<pipelineVars, plotVars, last_audio_metadata, current_session_id,
                 auto_save_enabled, auto_save_last_time, export_status,
                 export_result_receiver, workerVars, threadVars>>
  /\ UNCHANGED <<queryVars, sub_saves, tick_pc, playerVars, historyVars>>

\* SensorDataApp::handle_keyboard_input with Space pressed; text_enabled is the
\* text reader's is_enabled
KeyboardSpace(text_enabled) ==
  /\ main_pc = "gui"
  /\ next_task_id <= MaxTasks
  /\ IF is_collecting /\ ~is_paused
     THEN SaveCurrentWindowDataAsync(buffer_x, buffer_timestamp, audio_buffer,
                                     audio_timestamps, last_audio_metadata)
     ELSE /\ save_status' = IF is_paused THEN "Data collection is paused"
                            ELSE IF ~text_enabled THEN "Not collecting data"
                            ELSE save_status
          /\ UNCHANGED queueVars
  /\ UNCHANGED <<pipelineVars, plotVars, last_audio_metadata, current_session_id,
                 auto_save_enabled, auto_save_last_time, export_status,
                 export_result_receiver, workerVars, threadVars>>
  /\ UNCHANGED <<queryVars, sub_saves, tick_pc, playerVars, historyVars>>

\* generate_session_id: the wall clock at one second resolution
GenerateSessionId == now

\* a loop body that generates a new id for every result
ApplySaveResult_AlwaysNew(d, result) ==
  [status |-> IF IsSome(result.error) THEN Unwrap(result.error) ELSE "Saved",
   session |-> GenerateSessionId]

\* the body of the while-let loop of handle_save_results for one SaveResult;
\* d is the pair [status, session] of save_status and current_session_id
ApplySaveResult(d, result) ==
  IF IsSome(result.error) THEN [status |-> Unwrap(result.error), session |-> d.session]
  ELSE IF result.acc_saved > 0 \/ result.audio_saved > 0
  THEN [status |-> "Saved", session |-> GenerateSessionId]
  ELSE [status |-> "No data saved", session |-> d.session]

RECURSIVE DrainSaveResults(_, _)
DrainSaveResults(d, chan) ==
  IF chan = <<>> THEN d
  ELSE DrainSaveResults(ApplySaveResult(d, Head(chan)), Tail(chan))

\* SensorDataApp::handle_save_results, once per frame
HandleSaveResults ==
  /\ main_pc = "gui"
  /\ LET d == DrainSaveResults([status |-> save_status, session |-> current_session_id],
                               save_result_channel)
     IN /\ save_status' = d.status
        /\ current_session_id' = d.session
  /\ save_result_channel' = <<>>
  /\ UNCHANGED <<pipelineVars, plotVars, last_audio_metadata, auto_save_enabled,
                 auto_save_last_time, export_status, export_result_receiver, queueVars,
                 export_responses, started, finished, worker_pc, worker_task, worker_result,
                 db_sessions, exported_files, threadVars>>
  /\ UNCHANGED <<queryVars, sub_saves, tick_pc, playerVars, historyVars>>

\* ExportHandler::export_new_sessions_only (export dialog button)
ExportNewSessionsOnly ==
  /\ main_pc = "gui"
  /\ next_task_id <= MaxTasks
  /\ IF TaskTrySend = "Ok"
     THEN /\ db_task_queue' = Append(db_task_queue,
                 [id |-> next_task_id, kind |-> "Export", accelerometer_data |-> <<>>,
                  audio_data |-> <<>>, audio_metadata |-> None,
                  audio_start_timestamp |-> None, audio_end_timestamp |-> None,
                  session_id |-> current_session_id])
          /\ next_task_id' = next_task_id + 1
          /\ export_status' = "Exporting new sessions..."
          /\ export_result_receiver' = Some(next_task_id)
     ELSE /\ export_status' = "Failed to start export"
          /\ UNCHANGED <<queueVars, export_result_receiver>>
  /\ UNCHANGED <<pipelineVars, plotVars, last_audio_metadata, save_status, current_session_id,
                 auto_save_enabled, auto_save_last_time, workerVars, threadVars>>
  /\ UNCHANGED <<queryVars, sub_saves, tick_pc, playerVars, historyVars>>

\* SensorDataApp::handle_export_results, once per frame
HandleExportResults ==
  /\ main_pc = "gui"
  /\ IsSome(export_result_receiver)
  /\ Unwrap(export_result_receiver) \in DOMAIN export_responses
  /\ export_status' = export_responses[Unwrap(export_result_receiver)].message
  /\ export_result_receiver' = None
  /\ UNCHANGED <<pipelineVars, plotVars, last_audio_metadata, save_status, current_session_id,
                 auto_save_enabled, auto_save_last_time, queueVars, workerVars, threadVars>>
  /\ UNCHANGED <<queryVars, sub_saves, tick_pc, playerVars, historyVars>>

----------------------------------------------------------------------------
(* Storage worker thread: run_database_handler *)

\* DatabaseManager::new() at thread start
WorkerStart ==
  /\ worker_pc = "init"
  /\ \E db_ok \in BOOLEAN : worker_pc' = IF db_ok THEN "check" ELSE "failed"
  /\ UNCHANGED <<pipelineVars, plotVars, driverVars, queueVars, save_result_channel,
                 export_responses, started, finished, worker_task, worker_result,
                 db_sessions, exported_files, threadVars>>
  /\ UNCHANGED <<queryVars, sub_saves, tick_pc, playerVars, historyVars>>

\* a loop head that does not read the flag
WorkerCheck_IgnoreFlag ==
  /\ worker_pc = "check"
  /\ worker_pc' = "recv"
  /\ UNCHANGED <<pipelineVars, plotVars, driverVars, queueVars, save_result_channel,
                 export_responses, started, finished, worker_task, worker_result,
                 db_sessions, exported_files, threadVars>>
  /\ UNCHANGED <<queryVars, sub_saves, tick_pc, playerVars, historyVars>>

\* while !shutdown_signal.load(..)
WorkerCheck ==
  /\ worker_pc = "check"
  /\ worker_pc' = IF shutdown_signal THEN "exited" ELSE "recv"
  /\ UNCHANGED <<pipelineVars, plotVars, driverVars, queueVars, save_result_channel,
                 export_responses, started, finished, worker_task, worker_result,
                 db_sessions, exported_files, threadVars>>
  /\ UNCHANGED <<queryVars, sub_saves, tick_pc, playerVars, historyVars>>

\* a receive that hands out the newest task
RecvIndex_Newest(q) == Len(q)

\* the position of the queue that recv_timeout hands out
RecvIndex(q) == 1

\* a receive that leaves the task in the queue
WorkerRecv_NoDequeue ==
  /\ worker_pc = "recv"
  /\ IF db_task_queue # <<>>
     THEN LET i == RecvIndex(db_task_queue)
          IN /\ worker_task' = Some(db_task_queue[i])
             /\ db_task_queue' = db_task_queue
             /\ started' = Append(started, db_task_queue[i].id)
             /\ worker_pc' = "exec"
     ELSE /\ worker_pc' = IF main_pc # "gui" THEN "exited" ELSE "check"
          /\ UNCHANGED <<worker_task, db_task_queue, started>>
  /\ UNCHANGED <<pipelineVars, plotVars, driverVars, next_task_id, save_result_channel,
                 export_responses, finished, worker_result, db_sessions, exported_files,
                 threadVars>>
  /\ UNCHANGED <<queryVars, sub_saves, tick_pc, playerVars, historyVars>>

\* task_receiver.recv_timeout(100ms): a task, Timeout, or Disconnected
WorkerRecv ==
  /\ worker_pc = "recv"
  /\ IF db_task_queue # <<>>
     THEN LET i == RecvIndex(db_task_queue)
          IN /\ worker_task' = Some(db_task_queue[i])
             /\ db_task_queue' = [j \in 1..(Len(db_task_queue) - 1) |->
                                     IF j < i THEN db_task_queue[j] ELSE db_task_queue[j + 1]]
             /\ started' = Append(started, db_task_queue[i].id)
             /\ worker_pc' = "exec"
     ELSE /\ worker_pc' = IF main_pc # "gui" THEN "exited" ELSE "check"
          /\ UNCHANGED <<worker_task, db_task_queue, started>>
  /\ UNCHANGED <<pipelineVars, plotVars, driverVars, next_task_id, save_result_channel,
                 export_responses, finished, worker_result, db_sessions, exported_files,
                 threadVars>>
  /\ UNCHANGED <<queryVars, sub_saves, tick_pc, playerVars, historyVars>>

\* the store part of handle_save_task; acc_ok and audio_ok are the outcomes of
\* save_accelerometer_data and save_audio_data
SaveResultOf(task, acc_ok, audio_ok) ==
  LET acc_err == task.accelerometer_data # <<>> /\ ~acc_ok
      acc_saved == IF task.accelerometer_data # <<>> /\ acc_ok
                   THEN Len(task.accelerometer_data) ELSE 0
      audio_try == task.audio_data # <<>> /\ ~acc_err
      audio_err == audio_try /\ ~audio_ok
      audio_saved == IF audio_try /\ audio_ok THEN 1 ELSE 0
  IN [acc_saved |-> acc_saved, audio_saved |-> audio_saved,
      error |-> IF audio_err THEN Some("Error saving audio data")
                ELSE IF acc_err THEN Some("Error saving acc data")
                ELSE None]

\* the calls handle_save_task makes on the store, in order, with their outcomes
SubSavesOf(task, acc_ok, audio_ok) ==
  LET acc_try == task.accelerometer_data # <<>>
      audio_try == task.audio_data # <<>> /\ ~(acc_try /\ ~acc_ok)
  IN (IF acc_try THEN <<[table |-> "accelerometer_data", ok |-> acc_ok]>> ELSE <<>>)
     \o (IF audio_try THEN <<[table |-> "audio_data", ok |-> audio_ok]>> ELSE <<>>)

\* a marker that is never found
IsSessionExported_Never(session_id) == FALSE

\* DatabaseManager::is_session_exported: the session's CSV file exists
IsSessionExported(session_id) == session_id \in exported_files

\* handle_new_sessions_export; ok is the set of sessions whose CSV was written
ExportResultOf(new_sessions, ok) ==
  LET success_count == Cardinality(ok)
      error_count == Cardinality(new_sessions \ ok)
  IN [success_count |-> success_count, error_count |-> error_count,
      message |-> IF success_count = 0 /\ error_count = 0
                  THEN "No new sessions to export"
                  ELSE "New sessions export completed"]

\* the task is executed synchronously against the store
WorkerExec ==
  /\ worker_pc = "exec"
  /\ LET task == Unwrap(worker_task)
     IN IF task.kind = "Save"
        THEN \E acc_ok, audio_ok \in BOOLEAN :
               LET r == SaveResultOf(task, acc_ok, audio_ok)
               IN /\ worker_result' = Some(r)
                  /\ db_sessions' = IF r.acc_saved > 0 \/ r.audio_saved > 0
                                    THEN db_sessions \cup {task.session_id} ELSE db_sessions
                  /\ sub_saves' = SubSavesOf(task, acc_ok, audio_ok)
                  /\ UNCHANGED exported_files
        ELSE \* ok: exported; left: the file was created and a later write failed
             LET new_sessions == {sid \in db_sessions : ~IsSessionExported(sid)}
             IN \E ok \in SUBSET new_sessions : \E left \in SUBSET (new_sessions \ ok) :
                  /\ worker_result' = Some(ExportResultOf(new_sessions, ok))
                  /\ exported_files' = exported_files \cup ok \cup left
                  /\ sub_saves' = <<>>
                  /\ UNCHANGED db_sessions
  /\ worker_pc' = "send"
  /\ UNCHANGED <<pipelineVars, plotVars, driverVars, queueVars, save_result_channel,
                 export_responses, started, finished, worker_task, threadVars>>
  /\ UNCHANGED <<queryVars, tick_pc, playerVars, historyVars>>

\* crossbeam try_send on the save-result channel: the receiver lives in the app
ResultTrySend ==
  IF main_pc # "gui" THEN "Disconnected"
  ELSE IF Len(save_result_channel) >= ResultChanCap THEN "Full"
  ELSE "Ok"

\* crossbeam try_send on the response channel of export task id (bounded(1), one send)
ResponseTrySend(id) ==
  IF main_pc = "gui" /\ export_result_receiver = Some(id) THEN "Ok" ELSE "Disconnected"

\* a worker that gives up on any failed send
AfterSend_ExitOnAnyFailure(kind, outcome) ==
  IF outcome # "Ok" THEN "exited" ELSE "check"

\* where the worker goes after the try_send of a task's result came back with outcome
AfterSend(kind, outcome) ==
  IF kind = "Save" /\ outcome = "Disconnected" THEN "exited" ELSE "check"

\* result_sender.try_send(result) in handle_save_task, response_sender.try_send(..) otherwise
WorkerSend ==
  /\ worker_pc = "send"
  /\ LET task == Unwrap(worker_task)
         outcome == IF task.kind = "Save" THEN ResultTrySend ELSE ResponseTrySend(task.id)
     IN /\ save_result_channel' = IF task.kind = "Save" /\ outcome = "Ok"
                                  THEN Append(save_result_channel, Unwrap(worker_result))
                                  ELSE save_result_channel
        /\ export_responses' = IF task.kind = "Export" /\ outcome = "Ok"
                               THEN export_responses @@ (task.id :> Unwrap(worker_result))
                               ELSE export_responses
        /\ worker_pc' = AfterSend(task.kind, outcome)
        /\ finished' = Append(finished, [id |-> task.id, kind |-> task.kind, outcome |-> outcome])
  /\ worker_task' = None
  /\ worker_result' = None
  /\ UNCHANGED <<pipelineVars, plotVars, driverVars, queueVars, started, db_sessions,
                 exported_files, threadVars>>
  /\ UNCHANGED <<queryVars, sub_saves, tick_pc, playerVars, historyVars>>

----------------------------------------------------------------------------
(* Ingest thread: run_mqtt_client / attempt_mqtt_connection *)

SensorEvents == {[kind |-> "sensor", data |-> d] : d \in DataPoints}
AudioEvents == {[kind |-> "audio", data |-> c] : c \in AudioChunks}
\* unparsable payloads, other packets, and connection errors
PlainEvents == {[kind |-> k, data |-> None] : k \in {"invalid_sensor", "invalid_audio", "other"}}
ErrorEvents == {[kind |-> "error", data |-> None]}

\* the source delivers no more than the model's bounds
SourceMayDeliver(ev) ==
  CASE ev.kind = "sensor" -> /\ Len(calibration_data) < MaxCalibrationLen
                             /\ Len(pushed) < MaxLivePushes
    [] ev.kind = "audio"  -> Len(audio_buffer) < MaxAudioLen
    [] OTHER -> TRUE

\* while retry_count < max_retries && !shutdown_signal.load(..)
MqttConnect ==
  /\ mqtt_pc = "connect"
  /\ mqtt_pc' = IF retry_count < MaxRetries /\ ~shutdown_signal THEN "iter" ELSE "exited"
  /\ UNCHANGED <<pipelineVars, plotVars, driverVars, queueVars, workerVars,
                 shutdown_signal, main_pc, mqtt_pending, retry_count>>
  /\ UNCHANGED <<queryVars, sub_saves, tick_pc, playerVars, historyVars>>

\* a send that never learns that the receiver is gone
IngestSend_NeverDisconnected(chan, cap) ==
  IF Len(chan) >= cap THEN "Blocked" ELSE "Ok"

\* Sender::send on an ingest channel whose receiver lives in the app:
\* Err when the receiver is gone, blocks while the channel is full
IngestSend(chan, cap) ==
  IF main_pc # "gui" THEN "Disconnected"
  ELSE IF Len(chan) >= cap THEN "Blocked"
  ELSE "Ok"

\* one turn of `for event in connection.iter()` for the event ev
MqttDeliver(ev) ==
  /\ mqtt_pc = "iter"
  /\ IF shutdown_signal
     THEN /\ mqtt_pc' = "exited"
          /\ UNCHANGED <<data_channel, audio_channel, mqtt_pending, retry_count>>
     ELSE CASE ev.kind = "sensor" ->
                 LET o == IngestSend(data_channel, DataChanCap)
                 IN /\ data_channel' = IF o = "Ok" THEN Append(data_channel, ev.data)
                                       ELSE data_channel
                    /\ mqtt_pending' = IF o = "Blocked" THEN Some(ev) ELSE None
                    /\ mqtt_pc' = CASE o = "Ok" -> "iter" [] o = "Blocked" -> "send"
                                     [] OTHER -> "exited"
                    /\ UNCHANGED <<audio_channel, retry_count>>
            [] ev.kind = "audio" ->
                 LET o == IngestSend(audio_channel, AudioChanCap)
                 IN /\ audio_channel' = IF o = "Ok" THEN Append(audio_channel, ev.data)
                                        ELSE audio_channel
                    /\ mqtt_pending' = IF o = "Blocked" THEN Some(ev) ELSE None
                    /\ mqtt_pc' = CASE o = "Ok" -> "iter" [] o = "Blocked" -> "send"
                                     [] OTHER -> "exited"
                    /\ UNCHANGED <<data_channel, retry_count>>
            [] ev.kind = "error" ->
                 /\ retry_count' = retry_count + 1
                 /\ mqtt_pc' = IF retry_count + 1 < MaxRetries THEN "sleep" ELSE "exited"
                 /\ UNCHANGED <<data_channel, audio_channel, mqtt_pending>>
            [] OTHER ->
                 UNCHANGED <<data_channel, audio_channel, mqtt_pending, retry_count, mqtt_pc>>
  /\ UNCHANGED <<now, is_calibrating, calibration_data, calibration_start_time,
                 calculated_sample_rate, is_collecting, is_paused, plotVars, driverVars,
                 queueVars, workerVars, shutdown_signal, main_pc>>
  /\ UNCHANGED <<queryVars, sub_saves, tick_pc, playerVars, historyVars>>

\* the same turn for an event of a source that stops at the model's bounds
MqttEvent(ev) ==
  /\ SourceMayDeliver(ev)
  /\ MqttDeliver(ev)

\* a blocked Sender::send returns: room was made, or the receiver was dropped
MqttSendReturns ==
  /\ mqtt_pc = "send"
  /\ LET ev == Unwrap(mqtt_pending)
         chan == IF ev.kind = "sensor" THEN data_channel ELSE audio_channel
         o == IngestSend(chan, IF ev.kind = "sensor" THEN DataChanCap ELSE AudioChanCap)
     IN /\ o # "Blocked"
        /\ data_channel' = IF o = "Ok" /\ ev.kind = "sensor"
                           THEN Append(data_channel, ev.data) ELSE data_channel
        /\ audio_channel' = IF o = "Ok" /\ ev.kind = "audio"
                            THEN Append(audio_channel, ev.data) ELSE audio_channel
        /\ mqtt_pc' = IF o = "Ok" THEN "iter" ELSE "exited"
  /\ mqtt_pending' = None
  /\ UNCHANGED <<now, is_calibrating, calibration_data, calibration_start_time,
                 calculated_sample_rate, is_collecting, is_paused, plotVars, driverVars,
                 queueVars, workerVars, shutdown_signal, main_pc, retry_count>>
  /\ UNCHANGED <<queryVars, sub_saves, tick_pc, playerVars, historyVars>>

\* thread::sleep(delay) before the next connection attempt is over
MqttWake ==
  /\ mqtt_pc = "sleep"
  /\ mqtt_pc' = "connect"
  /\ UNCHANGED <<pipelineVars, plotVars, driverVars, queueVars, workerVars,
                 shutdown_signal, main_pc, mqtt_pending, retry_count>>
  /\ UNCHANGED <<queryVars, sub_saves, tick_pc, playerVars, historyVars>>

----------------------------------------------------------------------------
(* Controlling thread: main *)

\* eframe::run_native returns; the app and the channel ends it owns are dropped
GuiClose ==
  /\ main_pc = "gui"
  /\ main_pc' = "closed"
  /\ UNCHANGED <<pipelineVars, plotVars, driverVars, queueVars, workerVars,
                 shutdown_signal, mqtt_pc, mqtt_pending, retry_count>>
  /\ UNCHANGED <<queryVars, sub_saves, tick_pc, playerVars, historyVars>>

\* shutdown_signal.store(true, Ordering::Relaxed)
SignalShutdown ==
  /\ main_pc = "closed"
  /\ shutdown_signal' = TRUE
  /\ main_pc' = "signalled"
  /\ UNCHANGED <<pipelineVars, plotVars, driverVars, queueVars, workerVars,
                 mqtt_pc, mqtt_pending, retry_count>>
  /\ UNCHANGED <<queryVars, sub_saves, tick_pc, playerVars, historyVars>>

\* mqtt_handle.join() returns
JoinMqtt ==
  /\ main_pc = "signalled"
  /\ mqtt_pc = "exited"
  /\ main_pc' = "joined"
  /\ UNCHANGED <<pipelineVars, plotVars, driverVars, queueVars, workerVars,
                 shutdown_signal, mqtt_pc, mqtt_pending, retry_count>>
  /\ UNCHANGED <<queryVars, sub_saves, tick_pc, playerVars, historyVars>>

\* the monotonic clock advances, up to limit
TickUntil(limit) ==
  /\ now < limit
  /\ now' = now + 1
  /\ UNCHANGED <<data_channel, audio_channel, is_calibrating, calibration_data,
                 calibration_start_time, calculated_sample_rate, is_collecting, is_paused,
                 plotVars, driverVars, queueVars, workerVars, threadVars>>
  /\ UNCHANGED <<queryVars, sub_saves, tick_pc, playerVars, historyVars>>

Tick == TickUntil(MaxTime)

----------------------------------------------------------------------------
(* Audio playback: audio/player.rs *)

\* what load_audio_data, play, pause and stop send
AudioCommands ==
  {[cmd |-> "LoadAudio", data |-> d] : d \in {<<>>, <<1>>}}
    \cup {[cmd |-> c, data |-> <<>>] : c \in {"Play", "Pause", "Stop"}}

\* AudioPlayer::load_audio_data / play / pause / stop: `let _ = command_sender.send(..)`,
\* which fails unnoticed once the worker has returned
AudioPlayerSend(command) ==
  /\ main_pc = "gui"
  /\ tick_pc = "idle"
  /\ commands_sent < MaxCommands
  /\ commands_sent' = commands_sent + 1
  /\ command_channel' = IF audio_worker_pc = "exited" THEN command_channel
                        ELSE Append(command_channel, command)
  /\ UNCHANGED <<status_channel, current_status, audio_worker_pc, player_audio_data,
                 playback_state, sink, worker_status, received_status>>
  /\ UNCHANGED <<pipelineVars, plotVars, driverVars, queueVars, workerVars, threadVars,
                 queryVars, sub_saves, tick_pc, historyVars>>

\* update_audio_playback_state calls AudioPlayer::update_status
UpdateStatusBegin ==
  /\ main_pc = "gui"
  /\ tick_pc = "idle"
  /\ tick_pc' = "status"
  /\ UNCHANGED <<pipelineVars, plotVars, driverVars, queueVars, workerVars, threadVars,
                 queryVars, sub_saves, playerVars, historyVars>>

\* `while let Ok(status) = receiver.try_recv()`: Err ends update_status
UpdateStatusRecv ==
  /\ tick_pc = "status"
  /\ received_status = None
  /\ IF status_channel = <<>>
     THEN /\ tick_pc' = "idle"
          /\ UNCHANGED <<status_channel, received_status>>
     ELSE /\ received_status' = Some(Head(status_channel))
          /\ status_channel' = Tail(status_channel)
          /\ tick_pc' = "status"
  /\ UNCHANGED <<command_channel, current_status, audio_worker_pc, player_audio_data,
                 playback_state, sink, worker_status, commands_sent>>
  /\ UNCHANGED <<pipelineVars, plotVars, driverVars, queueVars, workerVars, threadVars,
                 queryVars, sub_saves, historyVars>>

\* `*self.current_status.lock().unwrap() = status`
UpdateStatusWrite ==
  /\ tick_pc = "status"
  /\ IsSome(received_status)
  /\ current_status' = Unwrap(received_status)
  /\ received_status' = None
  /\ UNCHANGED <<command_channel, status_channel, audio_worker_pc, player_audio_data,
                 playback_state, sink, worker_status, commands_sent>>
  /\ UNCHANGED <<pipelineVars, plotVars, driverVars, queueVars, workerVars, threadVars,
                 queryVars, sub_saves, tick_pc, historyVars>>

\* audio_worker_thread up to its loop: the output stream opens or the thread returns
\* Err; the initial status is sent, not stored
AudioWorkerStart ==
  /\ audio_worker_pc = "start"
  /\ \E stream_ok \in BOOLEAN :
       IF stream_ok
       THEN /\ audio_worker_pc' = "loop"
            /\ status_channel' = Append(status_channel,
                                        [state |-> "Stopped", is_available |-> FALSE])
       ELSE /\ audio_worker_pc' = "exited"
            /\ UNCHANGED status_channel
  /\ UNCHANGED <<command_channel, current_status, player_audio_data, playback_state, sink,
                 worker_status, received_status, commands_sent>>
  /\ UNCHANGED <<pipelineVars, plotVars, driverVars, queueVars, workerVars, threadVars,
                 queryVars, sub_saves, tick_pc, historyVars>>

\* a periodic status that always reports Stopped
TimeoutState_AlwaysStopped(state, s) == "Stopped"

\* current_state of the Timeout arm
TimeoutState(state, s) ==
  IF IsSome(s)
  THEN IF Unwrap(s).empty /\ state = "Playing" THEN "Stopped" ELSE state
  ELSE "Stopped"

\* one command_receiver.recv_timeout(50ms) and its match arm; LoadAudio and Timeout
\* store a status in the cell and go on to send it
AudioWorkerRecv ==
  /\ audio_worker_pc = "loop"
  /\ IF command_channel # <<>>
     THEN LET command == Head(command_channel)
          IN /\ command_channel' = Tail(command_channel)
             /\ CASE command.cmd = "LoadAudio" ->
                       LET status == [state |-> "Stopped", is_available |-> TRUE]
                       IN /\ sink' = None
                          /\ playback_state' = "Stopped"
                          /\ player_audio_data' = command.data
                          /\ current_status' = status
                          /\ worker_status' = Some(status)
                          /\ audio_worker_pc' = "send_status"
                  [] command.cmd = "Play" ->
                       /\ IF player_audio_data = <<>>
                          THEN UNCHANGED <<sink, playback_state>>
                          ELSE /\ sink' = Some([empty |-> FALSE])
                               /\ playback_state' = "Playing"
                       /\ UNCHANGED <<player_audio_data, current_status, worker_status,
                                      audio_worker_pc>>
                  [] command.cmd = "Pause" ->
                       /\ playback_state' = IF IsSome(sink) THEN "Paused" ELSE playback_state
                       /\ UNCHANGED <<sink, player_audio_data, current_status, worker_status,
                                      audio_worker_pc>>
                  [] command.cmd = "Stop" ->
                       /\ sink' = None
                       /\ playback_state' = "Stopped"
                       /\ UNCHANGED <<player_audio_data, current_status, worker_status,
                                      audio_worker_pc>>
     ELSE /\ Len(status_channel) < MaxStatusLen
          /\ LET status == [state |-> TimeoutState(playback_state, sink),
                            is_available |-> player_audio_data # <<>>]
             IN /\ playback_state' =
                     IF IsSome(sink) /\ Unwrap(sink).empty /\ playback_state = "Playing"
                     THEN "Stopped" ELSE playback_state
                /\ current_status' = status
                /\ worker_status' = Some(status)
                /\ audio_worker_pc' = "send_status"
          /\ UNCHANGED <<command_channel, sink, player_audio_data>>
  /\ UNCHANGED <<status_channel, received_status, commands_sent>>
  /\ UNCHANGED <<pipelineVars, plotVars, driverVars, queueVars, workerVars, threadVars,
                 queryVars, sub_saves, tick_pc, historyVars>>

\* `let _ = status_sender.send(status)`
AudioWorkerSendStatus ==
  /\ audio_worker_pc = "send_status"
  /\ status_channel' = Append(status_channel, Unwrap(worker_status))
  /\ worker_status' = None
  /\ audio_worker_pc' = "loop"
  /\ UNCHANGED <<command_channel, current_status, player_audio_data, playback_state, sink,
                 received_status, commands_sent>>
  /\ UNCHANGED <<pipelineVars, plotVars, driverVars, queueVars, workerVars, threadVars,
                 queryVars, sub_saves, tick_pc, historyVars>>

\* the output stream has played the whole source of a playing sink
SinkFinishes ==
  /\ IsSome(sink)
  /\ ~Unwrap(sink).empty
  /\ playback_state = "Playing"
  /\ sink' = Some([empty |-> TRUE])
  /\ UNCHANGED <<command_channel, status_channel, current_status, audio_worker_pc,
                 player_audio_data, playback_state, worker_status, received_status,
                 commands_sent>>
  /\ UNCHANGED <<pipelineVars, plotVars, driverVars, queueVars, workerVars, threadVars,
                 queryVars, sub_saves, tick_pc, historyVars>>

----------------------------------------------------------------------------
(* Alignment and CSV export: database/tasks.rs *)

Abs(n) == IF n < 0 THEN -n ELSE n

\* f64::round of the quotient p / q, q > 0: halves go away from zero
RoundDiv(p, q) ==
  IF p >= 0 THEN (2 * p + q) \div (2 * q) ELSE -((2 * (-p) + q) \div (2 * q))

\* the rows get_accelerometer_data_by_session returns: ORDER BY timestamp_ms
AlignValues == {7, 8}
AlignTimes == 0..MaxAlignTime
AlignPoints == [vals : AlignValues, timestamp : AlignTimes]
StoredAccData ==
  {a \in UNION {[1..n -> AlignPoints] : n \in 0..MaxAccLen} :
     \A i \in 1..(Len(a) - 1) : a[i].timestamp <= a[i + 1].timestamp}

\* the rows get_audio_data_by_session returns: ORDER BY start_timestamp_ms; a
\* stored blob holds at least one sample (save_audio_data stores none otherwise)
AudioStarts == {0, 1}
StoredChunks ==
  {c \in [start : AudioStarts, end : AlignTimes, samples : {<<100>>, <<100, 200>>},
          sample_rate : {AudioSampleRate}, channels : {1}, format : {"PCM_16"}] :
     c.start <= c.end}
StoredAudioData ==
  {a \in UNION {[1..n -> StoredChunks] : n \in 0..MaxChunks} :
     \A i \in 1..(Len(a) - 1) : a[i].start <= a[i + 1].start}

\* the difference taken from the start of the audio
TimeDiffOf_FromStart(acc, audio) == audio[1].start - acc[Len(acc)].timestamp

\* audio_last_timestamp - acc_last_timestamp
TimeDiffOf(acc, audio) == audio[Len(audio)].end - acc[Len(acc)].timestamp

\* acc_sample_rate: estimated from the stream's own span, 400.0 by default
AccSampleRate(acc) ==
  LET acc_duration_ms == acc[Len(acc)].timestamp - acc[1].timestamp
  IN IF Len(acc) > 1 /\ acc_duration_ms > 0
     THEN [num |-> (Len(acc) - 1) * 1000, den |-> acc_duration_ms]
     ELSE [num |-> DefaultAccSampleRate, den |-> 1]

\* (time_diff_ms as f64 * acc_sample_rate / 1000.0).round() as i32
ShiftSamples(acc, audio) ==
  LET r == AccSampleRate(acc)
  IN RoundDiv(TimeDiffOf(acc, audio) * r.num, 1000 * r.den)

\* (k as f64 * sample_interval_ms) as i64 with sample_interval_ms = 1000.0 / rate:
\* the cast drops the fraction of the product
IntervalOffset(k, r) == (k * 1000 * r.den) \div r.num

\* a shift > 0 branch that always keeps at least the first original sample
ShiftForward_KeepOne(acc, shift_count, r) ==
  LET first_point == acc[1]
      end_index == IF Len(acc) > shift_count THEN Len(acc) - shift_count ELSE 1
  IN [i \in 1..shift_count |->
        [vals |-> first_point.vals,
         timestamp |-> first_point.timestamp - IntervalOffset(shift_count - (i - 1), r)]]
     \o SubSeq(acc, 1, end_index)

\* the shift > 0 branch: padding in front, the end cut off
ShiftForward(acc, shift_count, r) ==
  LET first_point == acc[1]
      end_index == IF Len(acc) > shift_count THEN Len(acc) - shift_count ELSE 0
  IN [i \in 1..shift_count |->
        [vals |-> first_point.vals,
         timestamp |-> first_point.timestamp - IntervalOffset(shift_count - (i - 1), r)]]
     \o SubSeq(acc, 1, end_index)

\* a shift < 0 branch whose padding counts from the first sample's timestamp
ShiftBackward_PadFromFirst(acc, shift_count, r) ==
  LET last_point == acc[Len(acc)]
      start_index == Min(shift_count, Len(acc))
  IN SubSeq(acc, start_index + 1, Len(acc))
     \o [i \in 1..shift_count |->
           [vals |-> last_point.vals,
            timestamp |-> acc[1].timestamp + IntervalOffset(i, r)]]

\* the shift < 0 branch: the start cut off, padding behind
ShiftBackward(acc, shift_count, r) ==
  LET last_point == acc[Len(acc)]
      start_index == Min(shift_count, Len(acc))
  IN SubSeq(acc, start_index + 1, Len(acc))
     \o [i \in 1..shift_count |->
           [vals |-> last_point.vals,
            timestamp |-> last_point.timestamp + IntervalOffset(i, r)]]

\* all_audio_samples: the chunks' samples in order
RECURSIVE FlattenSamples(_)
FlattenSamples(chunks) ==
  IF chunks = <<>> THEN <<>> ELSE Head(chunks).samples \o FlattenSamples(Tail(chunks))

\* a merge that keeps the first chunk only
MergeAudio_FirstChunkOnly(audio) == <<audio[1]>>

\* aligned_audio_data: one chunk over the original time range, or nothing
MergeAudio(audio) ==
  IF FlattenSamples(audio) = <<>> THEN <<>>
  ELSE <<[start |-> audio[1].start, end |-> audio[Len(audio)].end,
          samples |-> FlattenSamples(audio),
          sample_rate |-> audio[Len(audio)].sample_rate,
          channels |-> audio[Len(audio)].channels,
          format |-> audio[Len(audio)].format]>>

\* align_session_data_internal
AlignSessionDataInternal(acc, audio) ==
  IF acc = <<>> \/ audio = <<>>
  THEN [aligned_acc_data |-> acc, aligned_audio_data |-> audio, alignment_info |-> 0]
  ELSE LET r == AccSampleRate(acc)
           shift_samples == ShiftSamples(acc, audio)
       IN [aligned_acc_data |->
             IF shift_samples = 0 THEN acc
             ELSE IF shift_samples > 0 THEN ShiftForward(acc, shift_samples, r)
             ELSE ShiftBackward(acc, -shift_samples, r),
           aligned_audio_data |-> MergeAudio(audio),
           alignment_info |-> Abs(TimeDiffOf(acc, audio))]

\* handle_load_aligned_history_data for the queried session
HandleLoadAlignedHistoryData ==
  /\ aligned_history = None
  /\ aligned_history' =
       IF acc_data = <<>> /\ audio_data_raw = <<>>
       THEN Some([acc |-> <<>>, audio |-> <<>>, offset |-> 0])
       ELSE LET a == AlignSessionDataInternal(acc_data, audio_data_raw)
            IN Some([acc |-> a.aligned_acc_data,
                     audio |-> FlattenSamples(a.aligned_audio_data),
                     offset |-> a.alignment_info])
  /\ UNCHANGED <<pipelineVars, plotVars, driverVars, queueVars, workerVars, threadVars,
                 acc_data, audio_data_raw, csv_file, sub_saves, tick_pc, playerVars, historyVars>>

\* an export that stops after the paired rows
CsvRows_PairedOnly(aligned_acc, all_audio_samples) ==
  [i \in 1..Min(Len(aligned_acc), Len(all_audio_samples)) |->
     [acc |-> Some(aligned_acc[i].vals), audio_sample |-> Some(all_audio_samples[i])]]

\* the data rows export_session_to_csv_internal writes after the header
CsvRows(aligned_acc, all_audio_samples) ==
  LET acc_count == Len(aligned_acc)
      audio_count == Len(all_audio_samples)
      min_rows == Min(acc_count, audio_count)
      combined == [i \in 1..min_rows |->
                     [acc |-> Some(aligned_acc[i].vals),
                      audio_sample |-> Some(all_audio_samples[i])]]
      remaining ==
        IF acc_count > audio_count
        THEN [i \in 1..(acc_count - min_rows) |->
                [acc |-> Some(aligned_acc[min_rows + i].vals), audio_sample |-> None]]
        ELSE IF audio_count > acc_count
        THEN [i \in 1..(audio_count - min_rows) |->
                [acc |-> None, audio_sample |-> Some(all_audio_samples[min_rows + i])]]
        ELSE <<>>
  IN combined \o remaining

\* export_session_to_csv_internal for the queried session, every file operation
\* succeeding; a session without rows is refused before any file is created
ExportSessionToCsvInternal ==
  /\ csv_file = None
  /\ ~(acc_data = <<>> /\ audio_data_raw = <<>>)
  /\ LET a == AlignSessionDataInternal(acc_data, audio_data_raw)
     IN csv_file' = Some(CsvRows(a.aligned_acc_data, FlattenSamples(a.aligned_audio_data)))
  /\ UNCHANGED <<pipelineVars, plotVars, driverVars, queueVars, workerVars, threadVars,
                 acc_data, audio_data_raw, aligned_history, sub_saves, tick_pc, playerVars, historyVars>>

----------------------------------------------------------------------------
(* Specifications *)

\* WaveformPlot::new(sample_rate, config)
NewPlot(window_seconds, sample_rate) ==
  /\ max_samples = CapacityFor(window_seconds, sample_rate)
  /\ audio_max_samples = CapacityFor(window_seconds, AudioSampleRate)
  /\ buffer_x = <<>>
  /\ buffer_timestamp = <<>>
  /\ audio_buffer = <<>>
  /\ audio_timestamps = <<>>
  /\ pushed = <<>>

\* AudioPlayer::new: both channels empty, the status cell Stopped and unavailable,
\* the worker spawned
InitPlayer ==
  /\ command_channel = <<>>
  /\ status_channel = <<>>
  /\ current_status = [state |-> "Stopped", is_available |-> FALSE]
  /\ audio_worker_pc = "start"
  /\ player_audio_data = <<>>
  /\ playback_state = "Stopped"
  /\ sink = None
  /\ worker_status = None
  /\ received_status = None
  /\ commands_sent = 0

\* HistoryVisualizationState::default; a data field holds Some(the session whose
\* rows it contains), None when its vectors are empty
HistoryDefault ==
  [selected_username |-> None,
   selected_session |-> None,
   loaded_history_data |-> None,
   original_history_data |-> None,
   aligned_history_data |-> None,
   available_usernames |-> <<>>,
   available_scenarios |-> <<>>,
   selected_scenario |-> None,
   history_sessions |-> <<>>,
   history_result_receiver |-> None,
   aligned_history_result_receiver |-> None,
   sessions_result_receiver |-> None,
   usernames_result_receiver |-> None,
   scenarios_result_receiver |-> None,
   loading_status |-> "",
   show_aligned_data |-> TRUE,
   delete_result_receiver |-> None,
   show_delete_confirmation |-> FALSE,
   session_to_delete |-> None,
   current_session_index |-> 0]

InitHistory ==
  /\ history = HistoryDefault
  /\ query_responses = <<>>

----------------------------------------------------------------------------
(* History panel: ui/history_controls.rs and SensorDataApp::handle_history_results.
   Each request creates an unbounded response channel; a receiver field holds
   Some(id of the task that carries the sender).  loading_status holds the text
   without its formatted arguments; the texts of the delete handlers are given
   in English. *)

QueryKinds == {"GetUsernames", "GetScenarios", "GetScenariosByUsername",
               "GetSessionsByUsernameAndScenario", "LoadHistoryData",
               "LoadAlignedHistoryData", "DeleteSession"}

\* the receivers the driver holds in h
HeldReceivers(h) ==
  {Unwrap(r) : r \in {x \in {h.usernames_result_receiver, h.scenarios_result_receiver,
                             h.sessions_result_receiver, h.history_result_receiver,
                             h.aligned_history_result_receiver,
                             h.delete_result_receiver} : IsSome(x)}}

\* the driver inside a handler: the history state, the task channel, the next task
DriverState == [history |-> history, queue |-> db_task_queue, next |-> next_task_id]

\* db_task_sender.try_send(..).is_ok()
CanSend(s) == ~WorkerGone /\ Len(s.queue) < TaskQueueCap

\* the task channel after an accepted try_send
Submit(s, kind, session_id) ==
  [s EXCEPT !.queue = Append(@, [id |-> s.next, kind |-> kind, session_id |-> session_id]),
            !.next = @ + 1]

\* refresh_history_sessions
RefreshHistorySessionsIn(s) ==
  IF IsSome(s.history.usernames_result_receiver)
  THEN [s EXCEPT !.history.loading_status = "Already refreshing users list..."]
  ELSE IF ~CanSend(s)
  THEN [s EXCEPT !.history.loading_status = "Unable to send usernames query request"]
  ELSE LET s1 == [Submit(s, "GetUsernames", None)
                    EXCEPT !.history.usernames_result_receiver = Some(s.next),
                           !.history.loading_status =
                               "Refreshing users and scenarios list..."]
       IN IF CanSend(s1)
          THEN [Submit(s1, "GetScenarios", None)
                  EXCEPT !.history.scenarios_result_receiver = Some(s1.next)]
          ELSE s1

\* a load_sessions_for_username that does not look at the pending receiver
LoadSessionsForUsername_Unguarded(s) ==
  IF CanSend(s)
  THEN [Submit(s, "GetSessionsByUsernameAndScenario", None)
          EXCEPT !.history.sessions_result_receiver = Some(s.next),
                 !.history.loading_status = "Loading sessions for user"]
  ELSE [s EXCEPT !.history.loading_status = "Unable to send sessions query request"]

\* load_sessions_for_username
LoadSessionsForUsername(s) ==
  IF IsSome(s.history.sessions_result_receiver)
  THEN [s EXCEPT !.history.loading_status = "Already loading sessions for user"]
  ELSE IF CanSend(s)
  THEN [Submit(s, "GetSessionsByUsernameAndScenario", None)
          EXCEPT !.history.sessions_result_receiver = Some(s.next),
                 !.history.loading_status = "Loading sessions for user"]
  ELSE [s EXCEPT !.history.loading_status = "Unable to send sessions query request"]

\* load_scenarios_for_username
LoadScenariosForUsername(s) ==
  IF IsSome(s.history.scenarios_result_receiver)
  THEN [s EXCEPT !.history.loading_status = "Already loading scenarios for user"]
  ELSE IF CanSend(s)
  THEN [Submit(s, "GetScenariosByUsername", None)
          EXCEPT !.history.scenarios_result_receiver = Some(s.next),
                 !.history.loading_status = "Loading scenarios for user"]
  ELSE [s EXCEPT !.history.loading_status = "Unable to send scenarios query request"]

\* load_both_data_types: both try_sends are made, the receivers are kept only if
\* both were accepted
LoadBothDataTypes(s, session_id) ==
  LET s0 == [s EXCEPT !.history.loading_status = "Loading both original and aligned data"]
      original_sent == CanSend(s0)
      s1 == IF original_sent THEN Submit(s0, "LoadHistoryData", session_id) ELSE s0
      aligned_sent == CanSend(s1)
      s2 == IF aligned_sent THEN Submit(s1, "LoadAlignedHistoryData", session_id) ELSE s1
  IN IF original_sent /\ aligned_sent
     THEN [s2 EXCEPT !.history.history_result_receiver = Some(s0.next),
                     !.history.aligned_history_result_receiver = Some(s1.next)]
     ELSE [s2 EXCEPT !.history.loading_status = "Unable to send data loading requests"]

\* load_session_data
LoadSessionData(s, session_id) ==
  IF IsSome(s.history.aligned_history_result_receiver)
  THEN [s EXCEPT !.history.loading_status = "Already loading aligned session data"]
  ELSE IF CanSend(s)
  THEN [Submit(s, "LoadAlignedHistoryData", session_id)
          EXCEPT !.history.aligned_history_result_receiver = Some(s.next),
                 !.history.loading_status = "Loading aligned session data"]
  ELSE [s EXCEPT !.history.loading_status = "Unable to send aligned data loading request"]

\* load_original_data
LoadOriginalData(s, session_id) ==
  IF IsSome(s.history.history_result_receiver)
  THEN [s EXCEPT !.history.loading_status = "Already loading original session data"]
  ELSE IF CanSend(s)
  THEN [Submit(s, "LoadHistoryData", session_id)
          EXCEPT !.history.history_result_receiver = Some(s.next),
                 !.history.loading_status = "Loading original session data"]
  ELSE [s EXCEPT !.history.loading_status = "Unable to send original data loading request"]

\* delete_selected_session
DeleteSelectedSession(s, session_id) ==
  IF IsSome(s.history.delete_result_receiver)
  THEN [s EXCEPT !.history.loading_status = "Already deleting session"]
  ELSE IF CanSend(s)
  THEN [Submit(s, "DeleteSession", session_id)
          EXCEPT !.history.delete_result_receiver = Some(s.next),
                 !.history.loading_status = "Deleting session"]
  ELSE [s EXCEPT !.history.loading_status = "Unable to send delete request"]

\* switch_to_aligned_data
SwitchToAlignedData(s) ==
  IF IsSome(s.history.aligned_history_data)
  THEN [s EXCEPT !.history.loaded_history_data = s.history.aligned_history_data,
                 !.history.loading_status = "Showing aligned data"]
  ELSE IF IsSome(s.history.selected_session)
  THEN LoadSessionData(s, Unwrap(s.history.selected_session))
  ELSE s

\* switch_to_original_data
SwitchToOriginalData(s) ==
  IF IsSome(s.history.original_history_data)
  THEN [s EXCEPT !.history.loaded_history_data = s.history.original_history_data,
                 !.history.loading_status = "Showing original data"]
  ELSE IF IsSome(s.history.selected_session)
  THEN LoadOriginalData(s, Unwrap(s.history.selected_session))
  ELSE s

\* iter().position(|s| s == x): 0-based, None when absent
PositionOf(list, x) ==
  IF \E i \in DOMAIN list : list[i] = x
  THEN Some((CHOOSE i \in DOMAIN list : list[i] = x /\ \A j \in 1..(i - 1) : list[j] # x) - 1)
  ELSE None

\* retain(|s| s != x)
Retain(list, x) == LET Keep(e) == e # x IN SelectSeq(list, Keep)

\* AppState::previous_session; the result is the driver state and the returned Option
PreviousSessionOf(s) ==
  LET h == s.history
      pos == IF IsSome(h.selected_session)
             THEN PositionOf(h.history_sessions, Unwrap(h.selected_session)) ELSE None
  IN IF IsSome(pos) /\ Unwrap(pos) > 0
     THEN [state |-> [s EXCEPT !.history.selected_session =
                                   Some(h.history_sessions[Unwrap(pos)]),
                               !.history.current_session_index = Unwrap(pos) - 1],
           session |-> Some(h.history_sessions[Unwrap(pos)])]
     ELSE [state |-> s, session |-> None]

\* AppState::next_session
NextSessionOf(s) ==
  LET h == s.history
      pos == IF IsSome(h.selected_session)
             THEN PositionOf(h.history_sessions, Unwrap(h.selected_session)) ELSE None
  IN IF IsSome(pos) /\ Unwrap(pos) + 1 < Len(h.history_sessions)
     THEN [state |-> [s EXCEPT !.history.selected_session =
                                   Some(h.history_sessions[Unwrap(pos) + 2]),
                               !.history.current_session_index = Unwrap(pos) + 1],
           session |-> Some(h.history_sessions[Unwrap(pos) + 2])]
     ELSE [state |-> s, session |-> None]

\* try_recv on a held receiver returns Ok
Ready(receiver) == IsSome(receiver) /\ Unwrap(receiver) \in DOMAIN query_responses
Received(receiver) == query_responses[Unwrap(receiver)]

\* handle_history_results: username list results
UsernamesResults(s) ==
  LET h == s.history
  IN IF ~Ready(h.usernames_result_receiver) THEN s
     ELSE LET usernames == Received(h.usernames_result_receiver)
              auto == usernames # <<>> /\ h.selected_username = None
              s1 == [s EXCEPT !.history.available_usernames = usernames,
                              !.history.loading_status = "Found users",
                              !.history.usernames_result_receiver = None,
                              !.history.selected_username =
                                  IF auto THEN Some(usernames[1]) ELSE @]
          IN IF auto /\ IsSome(h.selected_scenario) THEN LoadSessionsForUsername(s1) ELSE s1

\* handle_history_results: scenarios list results
ScenariosResults(s) ==
  LET h == s.history
  IN IF ~Ready(h.scenarios_result_receiver) THEN s
     ELSE LET scenarios == Received(h.scenarios_result_receiver)
              auto == scenarios # <<>> /\ h.selected_scenario = None
              s1 == [s EXCEPT !.history.available_scenarios = scenarios,
                              !.history.scenarios_result_receiver = None,
                              !.history.selected_scenario =
                                  IF auto THEN Some(scenarios[1]) ELSE @]
          IN IF auto /\ IsSome(h.selected_username) THEN LoadSessionsForUsername(s1) ELSE s1

\* handle_history_results: session list results
SessionsResults(s) ==
  LET h == s.history
  IN IF ~Ready(h.sessions_result_receiver) THEN s
     ELSE LET sessions == Received(h.sessions_result_receiver)
              auto == sessions # <<>> /\ h.selected_session = None
              s1 == [s EXCEPT !.history.history_sessions = sessions,
                              !.history.loading_status = "Found history sessions",
                              !.history.sessions_result_receiver = None,
                              !.history.selected_session =
                                  IF auto THEN Some(sessions[1]) ELSE @,
                              !.history.current_session_index = IF auto THEN 0 ELSE @]
          IN IF auto THEN LoadBothDataTypes(s1, sessions[1]) ELSE s1

\* handle_history_results: original data loading results
OriginalResults(s) ==
  LET h == s.history
  IN IF ~Ready(h.history_result_receiver) THEN s
     ELSE LET data == Received(h.history_result_receiver)
          IN [s EXCEPT !.history.original_history_data = data,
                       !.history.loaded_history_data =
                           IF ~h.show_aligned_data THEN data ELSE @,
                       !.history.loading_status =
                           IF ~h.show_aligned_data THEN "Loaded original data" ELSE @,
                       !.history.history_result_receiver = None]

\* handle_history_results: aligned data loading results
AlignedResults(s) ==
  LET h == s.history
  IN IF ~Ready(h.aligned_history_result_receiver) THEN s
     ELSE LET data == Received(h.aligned_history_result_receiver)
          IN [s EXCEPT !.history.aligned_history_data = data,
                       !.history.loaded_history_data =
                           IF h.show_aligned_data THEN data ELSE @,
                       !.history.loading_status =
                           IF h.show_aligned_data THEN "Loaded aligned data" ELSE @,
                       !.history.aligned_history_result_receiver = None]

\* handle_history_results: the Ok(()) branch of the delete session results; result
\* is the worker's answer, of which the driver reads only that it is Ok
DeleteSucceeded(s0, result) ==
  LET s == [s0 EXCEPT !.history.loading_status = "Session deleted"]
      h == s.history
  IN IF h.session_to_delete = None THEN s
     ELSE LET deleted_session == Unwrap(h.session_to_delete)
              was_selected == h.selected_session = Some(deleted_session)
              deleted_index == PositionOf(h.history_sessions, deleted_session)
              remaining == Retain(h.history_sessions, deleted_session)
              target_index == IF IsSome(deleted_index) /\ Unwrap(deleted_index) > 0
                              THEN Unwrap(deleted_index) - 1 ELSE 0
              final_index == IF target_index < Len(remaining) - 1
                             THEN target_index ELSE Len(remaining) - 1
              s1 == [s EXCEPT !.history.selected_session = IF was_selected THEN None ELSE @,
                              !.history.loaded_history_data = IF was_selected THEN None ELSE @,
                              !.history.original_history_data = IF was_selected THEN None ELSE @,
                              !.history.aligned_history_data = IF was_selected THEN None ELSE @,
                              !.history.history_sessions = remaining,
                              !.history.session_to_delete = None]
          IN IF remaining # <<>>
             THEN LoadBothDataTypes(
                    [s1 EXCEPT !.history.selected_session = Some(remaining[final_index + 1]),
                               !.history.current_session_index = final_index],
                    remaining[final_index + 1])
             ELSE [s1 EXCEPT !.history.current_session_index = 0]

\* handle_history_results: delete session results
DeleteResults(s) ==
  LET h == s.history
  IN IF ~Ready(h.delete_result_receiver) THEN s
     ELSE LET result == Received(h.delete_result_receiver)
              s1 == IF result.ok THEN DeleteSucceeded(s, result)
                    ELSE [s EXCEPT !.history.loading_status = "Delete failed"]
          IN [s1 EXCEPT !.history.session_to_delete = None,
                        !.history.delete_result_receiver = None]

\* a handler of the history panel leaves the driver in state s; the channels whose
\* receiver it replaced or cleared are dropped with what they hold
HistoryHandlerEnds(s) ==
  /\ main_pc = "gui"
  /\ history' = s.history
  /\ db_task_queue' = s.queue
  /\ next_task_id' = s.next
  /\ query_responses' = [id \in DOMAIN query_responses \cap HeldReceivers(s.history) |->
                           query_responses[id]]
  /\ UNCHANGED <<pipelineVars, plotVars, driverVars, workerVars, threadVars, queryVars,
                 sub_saves, tick_pc, playerVars>>

\* SensorDataApp::handle_history_results, once per frame
HandleHistoryResults ==
  /\ main_pc = "gui"
  /\ HistoryHandlerEnds(
       DeleteResults(AlignedResults(OriginalResults(SessionsResults(ScenariosResults(
         UsernamesResults(DriverState)))))))

\* the user makes no more requests than the model's bound
UserMayRequest == next_task_id <= MaxQueries

\* the refresh button of render_panel_controls
RefreshHistorySessions ==
  /\ UserMayRequest
  /\ HistoryHandlerEnds(RefreshHistorySessionsIn(DriverState))

\* render_session_selector: a click on username in the user selector
UsernameClick(username) ==
  /\ UserMayRequest
  /\ \E i \in DOMAIN history.available_usernames : history.available_usernames[i] = username
  /\ HistoryHandlerEnds(
       LoadScenariosForUsername(LoadSessionsForUsername(
         [DriverState EXCEPT !.history.selected_username = Some(username),
                             !.history.selected_session = None,
                             !.history.history_sessions = <<>>,
                             !.history.selected_scenario = None])))

\* render_session_selector: a click on scenario in the scenario selector
ScenarioClick(scenario) ==
  /\ UserMayRequest
  /\ \E i \in DOMAIN history.available_scenarios : history.available_scenarios[i] = scenario
  /\ LET s == [DriverState EXCEPT !.history.selected_scenario = Some(scenario),
                                  !.history.selected_session = None,
                                  !.history.history_sessions = <<>>]
     IN HistoryHandlerEnds(IF IsSome(history.selected_username)
                           THEN LoadSessionsForUsername(s) ELSE s)

\* the session row of render_session_selector is shown
SessionRowShown == IsSome(history.selected_username) /\ history.history_sessions # <<>>

\* render_session_selector: the previous-session button
PreviousSessionClick ==
  /\ UserMayRequest
  /\ SessionRowShown
  /\ LET r == PreviousSessionOf(DriverState)
     IN HistoryHandlerEnds(IF IsSome(r.session)
                           THEN LoadBothDataTypes(r.state, Unwrap(r.session)) ELSE r.state)

\* render_session_selector: the next-session button
NextSessionClick ==
  /\ UserMayRequest
  /\ SessionRowShown
  /\ LET r == NextSessionOf(DriverState)
     IN HistoryHandlerEnds(IF IsSome(r.session)
                           THEN LoadBothDataTypes(r.state, Unwrap(r.session)) ELSE r.state)

\* render_session_selector: the delete button next to the selected session
DeleteClick ==
  /\ SessionRowShown
  /\ IsSome(history.selected_session)
  /\ HistoryHandlerEnds([DriverState EXCEPT
       !.history.session_to_delete = history.selected_session,
       !.history.show_delete_confirmation = TRUE])

\* render_delete_confirmation_dialog: the cancel button
DeleteCancel ==
  /\ history.show_delete_confirmation
  /\ IsSome(history.session_to_delete)
  /\ HistoryHandlerEnds([DriverState EXCEPT !.history.show_delete_confirmation = FALSE,
                                            !.history.session_to_delete = None])

\* render_delete_confirmation_dialog: the confirm button
DeleteConfirm ==
  /\ UserMayRequest
  /\ history.show_delete_confirmation
  /\ IsSome(history.session_to_delete)
  /\ HistoryHandlerEnds(
       [DeleteSelectedSession(DriverState, Unwrap(history.session_to_delete))
          EXCEPT !.history.show_delete_confirmation = FALSE])

\* render_display_options: the Aligned label
AlignedClick ==
  /\ UserMayRequest
  /\ ~history.show_aligned_data
  /\ HistoryHandlerEnds(SwitchToAlignedData(
       [DriverState EXCEPT !.history.show_aligned_data = TRUE]))

\* render_display_options: the Original label
OriginalClick ==
  /\ UserMayRequest
  /\ history.show_aligned_data
  /\ HistoryHandlerEnds(SwitchToOriginalData(
       [DriverState EXCEPT !.history.show_aligned_data = FALSE]))

\* the stored sessions in the order the store lists them
SessionList(S) ==
  [i \in 1..Cardinality(S) |-> CHOOSE x \in S : Cardinality({y \in S : y < x}) = i - 1]

\* what the handlers of run_database_handler answer to a query task; deleted tells
\* whether delete_session returned Ok. All stored sessions belong to one user and
\* one scenario; the rows of a session are represented by the session.
QueryResponse(task, deleted) ==
  CASE task.kind = "GetUsernames" -> IF db_sessions = {} THEN <<>> ELSE <<"user">>
    [] task.kind \in {"GetScenarios", "GetScenariosByUsername"} ->
         IF db_sessions = {} THEN <<>> ELSE <<"standard">>
    [] task.kind = "GetSessionsByUsernameAndScenario" -> SessionList(db_sessions)
    [] task.kind \in {"LoadHistoryData", "LoadAlignedHistoryData"} ->
         IF task.session_id \in db_sessions THEN Some(task.session_id) ELSE None
    [] task.kind = "DeleteSession" -> [ok |-> deleted, session_id |-> task.session_id]

\* a query task is executed against the store and response_sender.try_send(..)
\* puts the answer into the task's response channel unless its receiver is gone
WorkerExecQuery ==
  /\ worker_pc = "exec"
  /\ Unwrap(worker_task).kind \in QueryKinds
  /\ LET task == Unwrap(worker_task)
         outcome == IF main_pc = "gui" /\ task.id \in HeldReceivers(history)
                    THEN "Ok" ELSE "Disconnected"
     IN \E deleted \in (IF task.kind = "DeleteSession" THEN BOOLEAN ELSE {FALSE}) :
          /\ db_sessions' = IF deleted THEN db_sessions \ {task.session_id}
                            ELSE db_sessions
          /\ query_responses' = IF outcome = "Ok"
                                THEN query_responses @@ (task.id :> QueryResponse(task, deleted))
                                ELSE query_responses
          /\ finished' = Append(finished,
                                [id |-> task.id, kind |-> task.kind, outcome |-> outcome])
  /\ worker_pc' = "check"
  /\ worker_task' = None
  /\ UNCHANGED <<pipelineVars, plotVars, driverVars, queueVars, save_result_channel,
                 export_responses, started, worker_result, exported_files, threadVars,
                 queryVars, sub_saves, tick_pc, playerVars, history>>


\* the threads and channels as main creates them
InitThreads ==
  /\ data_channel = <<>>
  /\ audio_channel = <<>>
  /\ db_task_queue = <<>>
  /\ save_result_channel = <<>>
  /\ next_task_id = 1
  /\ started = <<>>
  /\ finished = <<>>
  /\ worker_pc = "init"
  /\ worker_task = None
  /\ worker_result = None
  /\ db_sessions = {}
  /\ exported_files = {}
  /\ export_responses = <<>>
  /\ shutdown_signal = FALSE
  /\ main_pc = "gui"
  /\ mqtt_pc = "connect"
  /\ mqtt_pending = None
  /\ retry_count = 0
  /\ sub_saves = <<>>
  /\ tick_pc = "idle"
  /\ InitPlayer
  /\ InitHistory

\* CollectionState::default, ExportState::default and SensorDataApp::new
InitDriver ==
  /\ is_paused = FALSE
  /\ last_audio_metadata = None
  /\ save_status = ""
  /\ auto_save_enabled = FALSE
  /\ auto_save_last_time = None
  /\ export_status = ""
  /\ export_result_receiver = None

\* no session has been queried
InitQuery ==
  /\ acc_data = <<>>
  /\ audio_data_raw = <<>>
  /\ aligned_history = None
  /\ csv_file = None

\* the state SensorDataApp::new constructs: CalibrationState::default
Init ==
  /\ now = 0
  /\ is_calibrating = TRUE
  /\ calibration_data = <<>>
  /\ calibration_start_time = None
  /\ calculated_sample_rate = None
  /\ is_collecting = FALSE
  /\ NewPlot(WindowDurationSeconds, InitialSampleRate)
  /\ InitDriver
  /\ current_session_id = GenerateSessionId
  /\ InitThreads
  /\ InitQuery

\* ingest, calibration and live collection under the running clock
Next ==
  \/ Tick
  \/ MqttConnect
  \/ \E ev \in SensorEvents \cup AudioEvents \cup PlainEvents : MqttEvent(ev)
  \/ MqttSendReturns
  \/ HandleDataProcessing
  \/ PauseResumeClick

Spec == Init /\ [][Next]_vars

\* the same pipeline with frames that keep coming and a clock that keeps running
SpecCalibration ==
  /\ Init
  /\ [][Next]_vars
  /\ WF_vars(HandleDataProcessing)
  /\ WF_vars(Tick)

\* WaveformPlot::add_data called directly with the sample d
PlotAddData(d) ==
  /\ Len(pushed) < MaxPushes
  /\ LET b == AddData(buffer_x, buffer_timestamp, max_samples, d)
     IN /\ buffer_x' = b.x
        /\ buffer_timestamp' = b.t
  /\ pushed' = Append(pushed, d)
  /\ UNCHANGED <<pipelineVars, max_samples, audio_max_samples, audio_buffer, audio_timestamps,
                 driverVars, queueVars, workerVars, threadVars>>
  /\ UNCHANGED <<queryVars, sub_saves, tick_pc, playerVars, historyVars>>

\* a plot freshly created by WaveformPlot::new for any rate and window length
InitBuffer ==
  /\ now = 0
  /\ is_calibrating = TRUE
  /\ calibration_data = <<>>
  /\ calibration_start_time = None
  /\ calculated_sample_rate = None
  /\ is_collecting = FALSE
  /\ \E w \in {1, WindowDurationSeconds} : \E r \in 0..MaxRate : NewPlot(w, r)
  /\ InitDriver
  /\ current_session_id = GenerateSessionId
  /\ InitThreads
  /\ InitQuery

NextBuffer == \E d \in DataPoints : PlotAddData(d)

SpecBuffer == InitBuffer /\ [][NextBuffer]_vars

\* window lengths of a fraction of a millisecond: the audio capacity is 0, 1 or 3
ShortWindows == {[num |-> 0, den |-> 1], [num |-> 1, den |-> 8192], [num |-> 1, den |-> 4096]}
\* sensor rates that give those windows a capacity of 0, 1, 2 or 4
FastRates == {0, 8192, 16384}
\* chunks of 0..MaxChunkLen raw samples
ChunkSamples == {[i \in 1..n |-> i] : n \in 0..MaxChunkLen}

\* WaveformPlot::add_audio_samples called directly with one chunk
PlotAddAudioSamples(samples, base_timestamp) ==
  /\ LET b == AddAudioSamples(audio_buffer, audio_timestamps, audio_max_samples,
                              samples, base_timestamp, AudioSampleRate)
     IN /\ audio_buffer' = b.a
        /\ audio_timestamps' = b.t
  /\ UNCHANGED <<pipelineVars, max_samples, audio_max_samples, buffer_x, buffer_timestamp,
                 pushed, driverVars, queueVars, workerVars, threadVars>>
  /\ UNCHANGED <<queryVars, sub_saves, tick_pc, playerVars, historyVars>>

\* a plot freshly created by WaveformPlot::new with a short window
InitPlot ==
  /\ now = 0
  /\ is_calibrating = TRUE
  /\ calibration_data = <<>>
  /\ calibration_start_time = None
  /\ calculated_sample_rate = None
  /\ is_collecting = FALSE
  /\ \E w \in ShortWindows : \E r \in FastRates :
       /\ max_samples = CapacityForFraction(w, r)
       /\ audio_max_samples = CapacityForFraction(w, AudioSampleRate)
  /\ buffer_x = <<>>
  /\ buffer_timestamp = <<>>
  /\ audio_buffer = <<>>
  /\ audio_timestamps = <<>>
  /\ pushed = <<>>
  /\ InitDriver
  /\ current_session_id = GenerateSessionId
  /\ InitThreads
  /\ InitQuery

NextPlot ==
  \/ \E d \in DataPoints : PlotAddData(d)
  \/ \E samples \in ChunkSamples : \E base_timestamp \in {0, 1} :
       PlotAddAudioSamples(samples, base_timestamp)

SpecPlot == InitPlot /\ [][NextPlot]_vars

\* the pipeline right after a calibration that took three samples 2000 ms apart:
\* rate 1 Hz, live collection on an empty plot
InitStorage ==
  /\ now = CalibrationEndSeconds
  /\ is_calibrating = FALSE
  /\ calibration_data = <<>>
  /\ calibration_start_time = None
  /\ calculated_sample_rate = Some(SampleRateOf(3, 2000))
  /\ is_collecting = TRUE
  /\ NewPlot(WindowDurationSeconds, RateAsUsize(SampleRateOf(3, 2000)))
  /\ InitDriver
  /\ current_session_id = 0
  /\ InitThreads
  /\ InitQuery

\* what the source delivers in this specification
StorageEvents == {[kind |-> "sensor", data |-> [vals |-> 7, timestamp |-> 0]],
                  [kind |-> "other", data |-> None]}

\* live collection, save and export requests, the storage worker, and shutdown
NextStorage ==
  \/ MqttConnect
  \/ \E ev \in StorageEvents : MqttEvent(ev)
  \/ MqttSendReturns
  \/ HandleDataProcessing
  \/ PauseResumeClick
  \/ \E text_enabled \in BOOLEAN : KeyboardSpace(text_enabled)
  \/ HandleSaveResults
  \/ ExportNewSessionsOnly
  \/ HandleExportResults
  \/ WorkerStart
  \/ WorkerCheck
  \/ WorkerRecv
  \/ WorkerExec
  \/ WorkerSend
  \/ GuiClose
  \/ SignalShutdown
  \/ JoinMqtt

SpecStorage == InitStorage /\ [][NextStorage]_vars

\* a frame of the calibrated pipeline taken one receive at a time, next to an ingest
\* thread whose source never runs dry of sensor samples; the button is handled
\* between frames. Every receive step the driving thread can take is taken.
NextTick ==
  \/ MqttConnect
  \/ \E ev \in SensorEvents : MqttDeliver(ev)
  \/ \E ev \in AudioEvents : MqttEvent(ev)
  \/ MqttSendReturns
  \/ TickBegin
  \/ DataRecvStep
  \/ AudioRecvStep
  \/ (tick_pc = "idle" /\ PauseResumeClick)

SpecTick ==
  /\ InitStorage
  /\ [][NextTick]_vars
  /\ WF_vars(DataRecvStep)
  /\ WF_vars(AudioRecvStep)

\* live collection with the auto-save button, over enough time for two intervals;
\* the storage worker has not been scheduled
NextAutoSave ==
  \/ TickUntil(MaxSaveTime)
  \/ MqttConnect
  \/ \E ev \in StorageEvents : MqttEvent(ev)
  \/ MqttSendReturns
  \/ HandleDataProcessing
  \/ PauseResumeClick
  \/ ToggleAutoSave

SpecAutoSave == InitStorage /\ [][NextAutoSave]_vars

\* the audio player next to the frames' update_status, every thread step taken
\* as long as it can be
NextPlayer ==
  \/ \E command \in AudioCommands : AudioPlayerSend(command)
  \/ UpdateStatusBegin
  \/ UpdateStatusRecv
  \/ UpdateStatusWrite
  \/ AudioWorkerStart
  \/ AudioWorkerRecv
  \/ AudioWorkerSendStatus
  \/ SinkFinishes

SpecPlayer ==
  /\ InitStorage
  /\ [][NextPlayer]_vars
  /\ WF_vars(UpdateStatusBegin) /\ WF_vars(UpdateStatusRecv) /\ WF_vars(UpdateStatusWrite)
  /\ WF_vars(AudioWorkerStart) /\ WF_vars(AudioWorkerRecv) /\ WF_vars(AudioWorkerSendStatus)

\* the methods of AppState called in any order, the button, and the frames of a
\* pipeline fed with one kind of sensor sample
NextCollection ==
  \/ Tick
  \/ MqttConnect
  \/ \E ev \in StorageEvents : MqttEvent(ev)
  \/ MqttSendReturns
  \/ HandleDataProcessing
  \/ ResumeCollection
  \/ PauseCollection
  \/ StartCollection
  \/ StopCollection
  \/ ResetCalibration
  \/ \E n \in 2..MaxCalibrationLen : CompleteCalibrationCall(SampleRateOf(n, 2000))

SpecCollection == Init /\ [][NextCollection]_vars

\* what the source delivers next to the save key
TriggerEvents ==
  StorageEvents \cup {[kind |-> "audio", data |-> c] : c \in {a \in AudioChunks : a.decodable}}

\* the application as constructed over a store that holds sessions of earlier runs
InitPanel ==
  /\ now = 0
  /\ is_calibrating = TRUE
  /\ calibration_data = <<>>
  /\ calibration_start_time = None
  /\ calculated_sample_rate = None
  /\ is_collecting = FALSE
  /\ NewPlot(WindowDurationSeconds, InitialSampleRate)
  /\ InitDriver
  /\ current_session_id = GenerateSessionId
  /\ data_channel = <<>>
  /\ audio_channel = <<>>
  /\ db_task_queue = <<>>
  /\ save_result_channel = <<>>
  /\ next_task_id = 1
  /\ started = <<>>
  /\ finished = <<>>
  /\ worker_pc = "init"
  /\ worker_task = None
  /\ worker_result = None
  /\ db_sessions = 1..MaxSessions
  /\ exported_files = {}
  /\ export_responses = <<>>
  /\ shutdown_signal = FALSE
  /\ main_pc = "gui"
  /\ mqtt_pc = "connect"
  /\ mqtt_pending = None
  /\ retry_count = 0
  /\ sub_saves = <<>>
  /\ tick_pc = "idle"
  /\ InitPlayer
  /\ InitHistory
  /\ InitQuery

\* the history panel in use next to the storage worker
NextPanel ==
  \/ RefreshHistorySessions
  \/ UsernameClick("user")
  \/ ScenarioClick("standard")
  \/ PreviousSessionClick
  \/ NextSessionClick
  \/ DeleteClick
  \/ DeleteCancel
  \/ DeleteConfirm
  \/ AlignedClick
  \/ OriginalClick
  \/ HandleHistoryResults
  \/ WorkerStart
  \/ WorkerCheck
  \/ WorkerRecv
  \/ WorkerExecQuery

SpecPanel == InitPanel /\ [][NextPanel]_vars

\* requests of the history panel and their answers
NextPending ==
  \/ RefreshHistorySessions
  \/ UsernameClick("user")
  \/ NextSessionClick
  \/ HandleHistoryResults
  \/ WorkerStart
  \/ WorkerCheck
  \/ WorkerRecv
  \/ WorkerExecQuery

\* frames keep coming and the storage worker keeps running while it can; nothing
\* is assumed about the user
SpecPending ==
  /\ InitPanel
  /\ [][NextPending]_vars
  /\ WF_vars(HandleHistoryResults)
  /\ WF_vars(WorkerStart) /\ WF_vars(WorkerCheck) /\ WF_vars(WorkerRecv)
  /\ WF_vars(WorkerExecQuery)

\* the application as constructed (calibrating, not collecting), or calibrated
\* at 1 Hz and collecting on an empty plot
InitTrigger == Init \/ InitStorage

\* calibration and live collection of sensor and audio data with the Space key;
\* the storage worker has not been scheduled
NextTrigger ==
  \/ Tick
  \/ MqttConnect
  \/ \E ev \in TriggerEvents : MqttEvent(ev)
  \/ MqttSendReturns
  \/ HandleDataProcessing
  \/ PauseResumeClick
  \/ \E text_enabled \in BOOLEAN : KeyboardSpace(text_enabled)

SpecTrigger == InitTrigger /\ [][NextTrigger]_vars

\* what the source delivers in the shutdown specification
ShutdownEvents == {[kind |-> "sensor", data |-> [vals |-> 7, timestamp |-> 0]]} \cup ErrorEvents

\* the threads around a shutdown: frames, one kind of save request, every thread's steps
NextShutdown ==
  \/ MqttConnect
  \/ \E ev \in ShutdownEvents : MqttEvent(ev)
  \/ MqttSendReturns
  \/ MqttWake
  \/ HandleDataProcessing
  \/ KeyboardSpace(FALSE)
  \/ HandleSaveResults
  \/ WorkerStart
  \/ WorkerCheck
  \/ WorkerRecv
  \/ WorkerExec
  \/ WorkerSend
  \/ GuiClose
  \/ SignalShutdown
  \/ JoinMqtt

\* every thread that can take a step eventually takes it, and frames keep coming
\* while the window is open; nothing is assumed about events arriving from the
\* network or about the user
SpecShutdown ==
  /\ InitStorage
  /\ [][NextShutdown]_vars
  /\ WF_vars(MqttConnect) /\ WF_vars(MqttSendReturns) /\ WF_vars(MqttWake)
  /\ WF_vars(HandleDataProcessing) /\ WF_vars(HandleSaveResults)
  /\ WF_vars(WorkerStart) /\ WF_vars(WorkerCheck) /\ WF_vars(WorkerRecv)
  /\ WF_vars(WorkerExec) /\ WF_vars(WorkerSend)
  /\ WF_vars(SignalShutdown) /\ WF_vars(JoinMqtt)

\* saves and their results while the clock runs
NextSession ==
  \/ Tick
  \/ MqttConnect
  \/ \E ev \in StorageEvents : MqttEvent(ev)
  \/ MqttSendReturns
  \/ HandleDataProcessing
  \/ KeyboardSpace(FALSE)
  \/ HandleSaveResults
  \/ WorkerStart
  \/ WorkerCheck
  \/ WorkerRecv
  \/ WorkerExec
  \/ WorkerSend

SpecSession == InitStorage /\ [][NextSession]_vars

\* what the source delivers in the save specification: one sensor sample, one audio record
SaveEvents ==
  {[kind |-> "sensor", data |-> [vals |-> 7, timestamp |-> 0]],
   [kind |-> "audio", data |-> [samples |-> <<100>>, timestamp |-> 0,
                                sample_rate |-> AudioSampleRate, decodable |-> TRUE]]}

\* windows with sensor and audio data saved by the worker
NextSave ==
  \/ MqttConnect
  \/ \E ev \in SaveEvents : MqttEvent(ev)
  \/ MqttSendReturns
  \/ HandleDataProcessing
  \/ KeyboardSpace(FALSE)
  \/ HandleSaveResults
  \/ WorkerStart
  \/ WorkerCheck
  \/ WorkerRecv
  \/ WorkerExec
  \/ WorkerSend

SpecSave == InitStorage /\ [][NextSave]_vars

\* a stored session under query: any rows the two loaders can return
InitAlign ==
  /\ now = 0
  /\ is_calibrating = TRUE
  /\ calibration_data = <<>>
  /\ calibration_start_time = None
  /\ calculated_sample_rate = None
  /\ is_collecting = FALSE
  /\ NewPlot(WindowDurationSeconds, InitialSampleRate)
  /\ InitDriver
  /\ current_session_id = GenerateSessionId
  /\ InitThreads
  /\ acc_data \in StoredAccData
  /\ audio_data_raw \in StoredAudioData
  /\ aligned_history = None
  /\ csv_file = None

NextAlign == HandleLoadAlignedHistoryData \/ ExportSessionToCsvInternal

SpecAlign == InitAlign /\ [][NextAlign]_vars

----------------------------------------------------------------------------
(* Properties *)

\* C1 (SpecBuffer): after any number of add_data calls on a fresh plot of capacity C
\* the snapshot is the last min(C, n) of the n pushed samples, in push order.
SlidingWindowHoldsLastC ==
  get_current_accelerometer_data = LastN(pushed, max_samples)

\* C1 witness: more than C >= 2 samples were pushed and the window holds two
\* different samples
SlidingWindowOverflowed ==
  /\ max_samples >= 2
  /\ Len(pushed) > max_samples
  /\ Len(buffer_x) = max_samples
  /\ buffer_timestamp[1] # buffer_timestamp[2]

\* the accumulator handle_calibration works on after its sensor loop, written from
\* the state before the tick
Elapsed == now - (IF calibration_start_time = None THEN now ELSE Unwrap(calibration_start_time))
AccumulatedAfterDrain ==
  IF Elapsed >= WarmupSeconds /\ Elapsed < CalibrationEndSeconds
  THEN calibration_data \o data_channel ELSE calibration_data
CalibrationTick == is_calibrating /\ HandleDataProcessing
TimeDiffMs(data) == data[Len(data)].timestamp - data[1].timestamp

\* C7 (Spec): a tick that emits a rate had N >= 2 accumulated samples with
\* t_last - t_first > 0 and emits exactly (N-1) * 1000 / (t_last - t_first);
\* 100 samples 10 ms apart give 100 Hz.
CalibrationRateFormula ==
  /\ [][(CalibrationTick /\ IsSome(calculated_sample_rate')) =>
          LET data == AccumulatedAfterDrain
              r == Unwrap(calculated_sample_rate')
          IN /\ Len(data) >= 2
             /\ TimeDiffMs(data) > 0
             /\ r.den > 0
             /\ r.num * TimeDiffMs(data) = (Len(data) - 1) * 1000 * r.den]_vars
  /\ LET r == SampleRateOf(100, 990 - 0) IN r.num = 100 * r.den

\* C7 witness: a rate was emitted from three samples over 2000 ms
RateEmittedFromThreeSamples ==
  /\ IsSome(calculated_sample_rate)
  /\ Unwrap(calculated_sample_rate).num = 2000
  /\ Unwrap(calculated_sample_rate).den = 2000

\* C8 (Spec), as claimed: a tick that finds the calibration window elapsed with
\* fewer than 2 accumulated samples, or with t_last - t_first <= 0, emits no rate
\* and leaves the engine waiting for a first sample: calibrating, no start
\* instant, empty accumulator, not collecting.
CalibrationAbortReturnsToWaiting ==
  [][(/\ CalibrationTick
      /\ Elapsed >= CalibrationEndSeconds
      /\ \/ Len(AccumulatedAfterDrain) < 2
         \/ TimeDiffMs(AccumulatedAfterDrain) <= 0)
     => /\ calculated_sample_rate' = None
        /\ ~is_collecting'
        /\ is_calibrating'
        /\ calibration_start_time' = None
        /\ calibration_data' = <<>>]_vars

\* C9 (Spec): the start instant is set by the tick that processes the first
\* sample; samples processed before 2 s are not accumulated, samples processed
\* from 2 s up to 8 s are; the rate computation runs only at 8 s or later.
CalibrationPhases ==
  [][CalibrationTick =>
       /\ (calibration_start_time = None /\ data_channel # <<>>)
             => calibration_start_time' = Some(now)
       /\ (calibration_start_time = None /\ data_channel = <<>>)
             => calibration_start_time' = None
       /\ (Elapsed < WarmupSeconds) => calibration_data' = calibration_data
       /\ (Elapsed >= WarmupSeconds /\ Elapsed < CalibrationEndSeconds)
             => calibration_data' = calibration_data \o data_channel
       /\ (is_calibrating' = FALSE \/ calculated_sample_rate' # calculated_sample_rate)
             => Elapsed >= CalibrationEndSeconds]_vars

\* C9 witness: still calibrating, two samples accumulated in the measurement interval
SamplesAccumulatedAfterWarmup ==
  /\ is_calibrating
  /\ IsSome(calibration_start_time)
  /\ now - Unwrap(calibration_start_time) >= WarmupSeconds
  /\ Len(calibration_data) = 2

\* C10 (Spec): the tick that emits rate r leaves the pipeline collecting and not
\* calibrating or paused, with a new empty plot of capacity window * floor(r),
\* an empty accumulator and no start instant.
CalibrationSuccessTransition ==
  [][(CalibrationTick /\ IsSome(calculated_sample_rate')) =>
       LET r == Unwrap(calculated_sample_rate')
       IN /\ ~is_calibrating' /\ is_collecting' /\ ~is_paused'
          /\ max_samples' = WindowDurationSeconds * (r.num \div r.den)
          /\ audio_max_samples' = WindowDurationSeconds * AudioSampleRate
          /\ buffer_x' = <<>> /\ buffer_timestamp' = <<>>
          /\ audio_buffer' = <<>> /\ audio_timestamps' = <<>>
          /\ calibration_data' = <<>>
          /\ calibration_start_time' = None]_vars

\* C10 witness: live collection on the plot sized by the emitted 1 Hz rate
LiveAfterCalibration ==
  /\ ~is_calibrating /\ is_collecting
  /\ IsSome(calculated_sample_rate)
  /\ max_samples = WindowDurationSeconds
  /\ buffer_x # <<>>

TaskIds(q) == [i \in 1..Len(q) |-> q[i].id]
FinishedIds == [i \in 1..Len(finished) |-> finished[i].id]

\* C2 (SpecStorage): the worker starts tasks in the order they were accepted, one
\* at a time: the started tasks are the first accepted ones in order, all but a task
\* in execution have finished, and the queue holds the following ones in order.
FifoExecution ==
  /\ started = [i \in 1..Len(started) |-> i]
  /\ FinishedIds = SubSeq(started, 1, Len(finished))
  /\ Len(started) - Len(finished) = IF worker_pc \in {"exec", "send"} THEN 1 ELSE 0
  /\ TaskIds(db_task_queue) = [i \in 1..Len(db_task_queue) |-> Len(started) + i]

\* C2 witness: a Save runs after an earlier task finished while an Export
\* accepted after it waits behind it
SaveRunsBeforeLaterExport ==
  /\ Len(finished) = 1
  /\ worker_pc = "exec"
  /\ Unwrap(worker_task).kind = "Save"
  /\ Len(db_task_queue) = 1
  /\ db_task_queue[1].kind = "Export"

SaveKeyPress == \E text_enabled \in BOOLEAN : KeyboardSpace(text_enabled)
HasDataToSave == buffer_x # <<>> \/ audio_buffer # <<>>

\* C3 (SpecStorage): a save trigger with data to save and a live worker appends
\* one Save task while fewer than K tasks are queued, and with K tasks queued it
\* leaves the queue as it is and sets the queue-full status.
Backpressure ==
  [][(SaveKeyPress /\ is_collecting /\ ~is_paused /\ HasDataToSave /\ ~WorkerGone) =>
       IF Len(db_task_queue) < TaskQueueCap
       THEN /\ Len(db_task_queue') = Len(db_task_queue) + 1
            /\ SubSeq(db_task_queue', 1, Len(db_task_queue)) = db_task_queue
            /\ db_task_queue'[Len(db_task_queue')].kind = "Save"
            /\ save_status' = "Saving data..."
       ELSE /\ db_task_queue' = db_task_queue
            /\ save_status' = "Database queue is full, try again later"]_vars

\* C3 witness: the queue holds K tasks and the last trigger was turned away
QueueFullReported ==
  /\ Len(db_task_queue) = TaskQueueCap
  /\ save_status = "Database queue is full, try again later"

QueuedSaves == {i \in 1..Len(db_task_queue) : db_task_queue[i].kind = "Save"}

\* C4 (SpecStorage), as claimed: no accepted Save task is left unexecuted, so a
\* worker that has returned leaves no Save task behind in the queue.
SaveNeverDropped ==
  WorkerGone => QueuedSaves = {}

\* C4 amended (SpecStorage): every accepted task is either still queued or was
\* started exactly once, and a worker that returned Ok leaves tasks behind only
\* after the window was closed.
SaveExecutedAtMostOnce ==
  /\ \A i, j \in 1..Len(started) : started[i] = started[j] => i = j
  /\ \A id \in 1..(next_task_id - 1) :
        (\E i \in 1..Len(started) : started[i] = id)
          # (\E i \in 1..Len(db_task_queue) : db_task_queue[i].id = id)
  /\ (worker_pc = "exited" /\ db_task_queue # <<>>) => main_pc # "gui"

\* C4 witness: one task was executed, the flag was set, and the worker returned
\* with a Save task still queued
SaveLeftAtShutdown ==
  /\ Len(finished) >= 1
  /\ shutdown_signal
  /\ worker_pc = "exited"
  /\ QueuedSaves # {}

SendFailurePolicy ==
  [][(worker_pc = "send" /\ worker_pc' # "send") =>
       LET task == Unwrap(worker_task)
       IN /\ (worker_pc' = "exited") <=> (task.kind = "Save" /\ main_pc # "gui")
          /\ (worker_pc' # "exited") => (worker_pc' = "check")
          /\ (task.kind = "Save" /\ main_pc = "gui"
                /\ Len(save_result_channel) >= ResultChanCap)
               => save_result_channel' = save_result_channel]_vars

\* C6 witness: a Save result met a full channel, an Export response met a dropped
\* receiver, and the worker is back at the top of its loop
FailedSendsIgnored ==
  /\ \E i \in 1..Len(finished) : finished[i].kind = "Save" /\ finished[i].outcome = "Full"
  /\ \E i \in 1..Len(finished) :
        finished[i].kind = "Export" /\ finished[i].outcome = "Disconnected"
  /\ worker_pc = "check"

----------------------------------------------------------------------------
(* Alignment and export properties (SpecAlign) *)

BothStreamsNonEmpty == acc_data # <<>> /\ audio_data_raw # <<>>
AlignedAcc == Unwrap(aligned_history).acc
QueriedRate == AccSampleRate(acc_data)
QueriedShift == ShiftSamples(acc_data, audio_data_raw)

\* the samples of the first n chunks, in order
RECURSIVE SamplesUpTo(_, _)
SamplesUpTo(chunks, n) ==
  IF n = 0 THEN <<>> ELSE SamplesUpTo(chunks, n - 1) \o chunks[n].samples

\* C11 (SpecAlign), as claimed: with 0 < shift <= count the aligned stream is
\* shift synthetic samples carrying the first sample's values, the i-th (from 0)
\* at exactly first_timestamp - (shift - i) * 1000 / acc_rate, followed by the
\* original stream without its last shift samples.
PositiveShiftPadsFront ==
  (aligned_history # None /\ BothStreamsNonEmpty
     /\ QueriedShift > 0 /\ QueriedShift <= Len(acc_data)) =>
    /\ Len(AlignedAcc) = Len(acc_data)
    /\ \A i \in 0..(QueriedShift - 1) :
         /\ AlignedAcc[i + 1].vals = acc_data[1].vals
         /\ AlignedAcc[i + 1].timestamp * QueriedRate.num
              = acc_data[1].timestamp * QueriedRate.num
                  - (QueriedShift - i) * 1000 * QueriedRate.den
    /\ \A i \in 1..(Len(acc_data) - QueriedShift) : AlignedAcc[QueriedShift + i] = acc_data[i]

\* C12 (SpecAlign), as claimed: with shift < 0 and |shift| <= count the aligned
\* stream is the original stream without its first |shift| samples followed by
\* |shift| synthetic samples carrying the last sample's values, the i-th (from 1)
\* at exactly last_timestamp + i * 1000 / acc_rate.
NegativeShiftPadsBack ==
  (aligned_history # None /\ BothStreamsNonEmpty
     /\ QueriedShift < 0 /\ -QueriedShift <= Len(acc_data)) =>
    LET n == -QueriedShift
        kept == Len(acc_data) - n
    IN /\ Len(AlignedAcc) = Len(acc_data)
       /\ \A i \in 1..kept : AlignedAcc[i] = acc_data[n + i]
       /\ \A i \in 1..n :
            /\ AlignedAcc[kept + i].vals = acc_data[Len(acc_data)].vals
            /\ AlignedAcc[kept + i].timestamp * QueriedRate.num
                 = acc_data[Len(acc_data)].timestamp * QueriedRate.num
                     + i * 1000 * QueriedRate.den

StreamsCoincide ==
  /\ BothStreamsNonEmpty
  /\ audio_data_raw[1].start = acc_data[1].timestamp
  /\ audio_data_raw[Len(audio_data_raw)].end = acc_data[Len(acc_data)].timestamp

\* C13 (SpecAlign): streams whose first and last timestamps coincide come back
\* with the accelerometer stream and the audio samples unchanged and offset 0,
\* and aligning that output again gives the same output.
AlignmentIdempotent ==
  (aligned_history # None /\ StreamsCoincide) =>
    LET a == AlignSessionDataInternal(acc_data, audio_data_raw)
    IN /\ Unwrap(aligned_history).acc = acc_data
       /\ Unwrap(aligned_history).audio = SamplesUpTo(audio_data_raw, Len(audio_data_raw))
       /\ Unwrap(aligned_history).offset = 0
       /\ AlignSessionDataInternal(a.aligned_acc_data, a.aligned_audio_data) = a

\* C13 witness: a loaded session of several samples and two chunks whose ends coincide
CoincidingSessionLoaded ==
  /\ aligned_history # None
  /\ StreamsCoincide
  /\ Len(acc_data) >= 2
  /\ acc_data[1].timestamp < acc_data[Len(acc_data)].timestamp
  /\ Len(audio_data_raw) = 2

CsvAudioColumn ==
  LET rows == Unwrap(csv_file)
      filled == {i \in 1..Len(rows) : rows[i].audio_sample # None}
  IN [i \in 1..Cardinality(filled) |-> Unwrap(rows[i].audio_sample)]

\* C14 (SpecAlign): for non-empty inputs the audio comes back as one chunk holding
\* all chunks' samples in input order, from the first chunk's start to the last
\* chunk's end, the offset is |audio_last - acc_last|, and aligned loading and CSV
\* export carry the same samples.
AudioMergedWithOffset ==
  BothStreamsNonEmpty =>
    LET a == AlignSessionDataInternal(acc_data, audio_data_raw)
        all == SamplesUpTo(audio_data_raw, Len(audio_data_raw))
        offset == Abs(audio_data_raw[Len(audio_data_raw)].end
                        - acc_data[Len(acc_data)].timestamp)
    IN /\ Len(a.aligned_audio_data) = 1
       /\ a.aligned_audio_data[1].samples = all
       /\ a.aligned_audio_data[1].start = audio_data_raw[1].start
       /\ a.aligned_audio_data[1].end = audio_data_raw[Len(audio_data_raw)].end
       /\ a.alignment_info = offset
       /\ aligned_history # None =>
            /\ Unwrap(aligned_history).audio = all
            /\ Unwrap(aligned_history).offset = offset
       /\ csv_file # None => CsvAudioColumn = all

\* C14 witness: two chunks were merged for loading and for export, with a
\* positive offset
TwoChunksMerged ==
  /\ aligned_history # None
  /\ csv_file # None
  /\ acc_data # <<>>
  /\ Len(audio_data_raw) = 2
  /\ Unwrap(aligned_history).offset > 0
  /\ Len(Unwrap(aligned_history).audio) = 3

\* C15 (SpecAlign): the CSV has max(N_acc, N_audio) data rows; the first
\* min(N_acc, N_audio) rows pair sample i of both streams, and the rest carry
\* only the accelerometer fields when N_acc >= N_audio and only the audio field
\* otherwise.
ExportRowLayout ==
  csv_file # None =>
    LET a == AlignSessionDataInternal(acc_data, audio_data_raw)
        acc == a.aligned_acc_data
        audio == SamplesUpTo(a.aligned_audio_data, Len(a.aligned_audio_data))
        rows == Unwrap(csv_file)
    IN /\ Len(rows) = Max(Len(acc), Len(audio))
       /\ \A i \in 1..Len(rows) :
            IF i <= Min(Len(acc), Len(audio))
            THEN rows[i] = [acc |-> Some(acc[i].vals), audio_sample |-> Some(audio[i])]
            ELSE IF Len(acc) >= Len(audio)
            THEN rows[i] = [acc |-> Some(acc[i].vals), audio_sample |-> None]
            ELSE rows[i] = [acc |-> None, audio_sample |-> Some(audio[i])]

\* C15 witness: an exported file with paired rows followed by accelerometer-only rows
PairedThenAccOnlyRows ==
  /\ csv_file # None
  /\ Len(Unwrap(csv_file)) = 3
  /\ Unwrap(csv_file)[1].audio_sample # None
  /\ Unwrap(csv_file)[1].acc # None
  /\ Unwrap(csv_file)[3].audio_sample = None

----------------------------------------------------------------------------
(* Export marker, session ids, save failures, lost worker, malformed records *)

ExportStep ==
  worker_pc = "exec" /\ worker_pc' = "send" /\ Unwrap(worker_task).kind = "Export"
PreviousTaskWasExport == finished # <<>> /\ finished[Len(finished)].kind = "Export"
NothingExported(r) ==
  r.success_count = 0 /\ r.error_count = 0 /\ r.message = "No new sessions to export"

SuccessResult(r) == r.error = None /\ (r.acc_saved > 0 \/ r.audio_saved > 0)
SaveSuccessHandled ==
  /\ save_result_channel' = <<>>
  /\ \E i \in 1..Len(save_result_channel) : SuccessResult(save_result_channel[i])

\* C17 (SpecSession), as claimed: handling a successful save result makes a
\* session id current that differs from the one that was current before.
SessionIdNeverReused ==
  [][SaveSuccessHandled => current_session_id' # current_session_id]_vars

\* C18 (SpecSave), as claimed: a Save task attempts the sensor sub-save and
\* the audio sub-save whenever it carries their data, whatever the outcome of the
\* other, and its result reports a failure whenever one of them failed.
SubSavesIndependent ==
  (worker_pc = "send" /\ Unwrap(worker_task).kind = "Save") =>
    LET task == Unwrap(worker_task)
        Tried(table) == \E i \in 1..Len(sub_saves) : sub_saves[i].table = table
    IN /\ task.accelerometer_data # <<>> => Tried("accelerometer_data")
       /\ task.audio_data # <<>> => Tried("audio_data")
       /\ (\E i \in 1..Len(sub_saves) : ~sub_saves[i].ok)
            => Unwrap(worker_result).error # None

\* C19 (SpecStorage): a save trigger with data to save and the worker gone
\* enqueues nothing and sets the restart-required status, which is not the
\* queue-full status.
DisconnectedSubmission ==
  [][(SaveKeyPress /\ is_collecting /\ ~is_paused /\ HasDataToSave /\ WorkerGone) =>
       /\ db_task_queue' = db_task_queue
       /\ next_task_id' = next_task_id
       /\ save_status' = "Database connection lost! Please restart the application."
       /\ save_status' # "Database queue is full, try again later"]_vars

\* C19 witness: the store did not open and a save trigger was answered with
\* the restart-required status
RestartRequiredReported ==
  /\ worker_pc = "failed"
  /\ save_status = "Database connection lost! Please restart the application."
  /\ db_task_queue = <<>>

MalformedEvents ==
  {[kind |-> k, data |-> None] : k \in {"invalid_sensor", "invalid_audio"}}
OnlyUndecodableAudioQueued ==
  /\ data_channel = <<>>
  /\ audio_channel # <<>>
  /\ \A i \in 1..Len(audio_channel) : ~audio_channel[i].decodable

\* C20 (Spec), as claimed: an unparsable message changes nothing but the ingest
\* thread's position, and a frame of live collection that finds only undecodable
\* audio records leaves the plot and every field a later save reads unchanged.
MalformedRecordsDropped ==
  [][/\ (\E ev \in MalformedEvents : MqttEvent(ev))
          => UNCHANGED <<pipelineVars, plotVars, driverVars, queueVars>>
     /\ (HandleDataProcessing /\ ~is_calibrating /\ is_collecting /\ ~is_paused
           /\ OnlyUndecodableAudioQueued)
          => UNCHANGED <<plotVars, driverVars, queueVars>>]_vars

\* C21: every sensor buffer holds at most the sensor capacity and the audio buffer and
\* its timestamps at most the audio capacity, in every state, also right after a chunk
\* larger than the free space or than the whole capacity was added
BufferCapacityBound ==
  /\ Len(buffer_x) <= max_samples
  /\ Len(buffer_timestamp) <= max_samples
  /\ Len(audio_buffer) <= audio_max_samples
  /\ Len(audio_timestamps) <= audio_max_samples

\* a four-sample chunk was added to an audio buffer of capacity three, and the sensor
\* buffer received more samples than it holds
OversizedChunkAdded ==
  /\ audio_max_samples = 3
  /\ audio_buffer = <<2, 3, 4>>
  /\ max_samples > 0
  /\ Len(pushed) > max_samples
  /\ Len(buffer_x) = max_samples

\* C22 (Spec): a tick that starts while calibrating drops every audio record it drains:
\* the audio channel is empty afterwards, the audio buffer and its timestamps hold
\* nothing, the metadata a later Save task would carry is untouched and no task is
\* queued; no audio is buffered while calibrating.
AudioDiscardedDuringCalibration ==
  /\ [][CalibrationTick =>
          /\ audio_channel' = <<>>
          /\ audio_buffer' = <<>> /\ audio_timestamps' = <<>>
          /\ last_audio_metadata' = last_audio_metadata
          /\ db_task_queue' = db_task_queue]_vars
  /\ [](is_calibrating => audio_buffer = <<>> /\ last_audio_metadata = None)

\* C22 witness: the ingest thread blocked on a full audio channel, and a calibrating
\* tick emptied the channel without buffering anything
AudioDroppedWhileCalibrating ==
  /\ is_calibrating
  /\ mqtt_pc = "send" /\ IsSome(mqtt_pending) /\ Unwrap(mqtt_pending).kind = "audio"
  /\ audio_channel = <<>>
  /\ audio_buffer = <<>>

\* C23 (SpecTick): a frame that entered handle_data_processing leaves it: its receive
\* loops end after finitely many receives, also while the ingest thread keeps sending.
TickTerminates == (tick_pc # "idle") ~> (tick_pc = "idle")

\* C24 (SpecStorage): the storage worker reads the shutdown flag after every processed
\* task and after every receive timeout (unless it returns at once), waits for a task
\* only after reading the flag as false, returns when it reads the flag as true, and
\* begins no task after that, whatever is queued.
FlagCheckDiscipline ==
  [][/\ (worker_pc = "send" /\ worker_pc' # "send") => worker_pc' \in {"check", "exited"}
     /\ (worker_pc = "recv" /\ worker_pc' # "recv" /\ worker_task' = None)
          => worker_pc' \in {"check", "exited"}
     /\ (worker_pc' = "recv" /\ worker_pc # "recv") => (worker_pc = "check" /\ ~shutdown_signal)
     /\ (worker_pc = "check" /\ worker_pc' # "check" /\ shutdown_signal) => worker_pc' = "exited"
     /\ (worker_pc' = "exec" /\ worker_pc # "exec") => worker_pc = "recv"
     /\ worker_pc = "exited" => (worker_pc' = "exited" /\ started' = started
                                 /\ finished' = finished)]_vars

\* C24 witness: the worker completed a task, read the flag as true at the loop head
\* and returned with tasks still queued
FlagObservedWithQueuedTasks ==
  /\ worker_pc = "exited"
  /\ shutdown_signal
  /\ db_task_queue # <<>>
  /\ finished # <<>>
  /\ LET last == finished[Len(finished)]
     IN ~(last.kind = "Save" /\ last.outcome = "Disconnected")

\* C25 (SpecStorage): once the app and with it every task sender and both ingest
\* receivers are dropped, the worker that finds the task channel empty returns (it
\* never fails or waits on), and the ingest thread puts nothing more on an ingest
\* channel, never blocks in a send again, and leaves a send only by returning.
DisconnectionCancels ==
  [][main_pc # "gui" =>
       /\ (worker_pc = "recv" /\ db_task_queue = <<>> /\ worker_pc' # "recv")
            => worker_pc' = "exited"
       /\ worker_pc' # "failed" \/ worker_pc = "failed" \/ worker_pc = "init"
       /\ data_channel' = data_channel /\ audio_channel' = audio_channel
       /\ mqtt_pc' = "send" => mqtt_pc = "send"
       /\ (mqtt_pc = "send" /\ mqtt_pc' # "send") => mqtt_pc' = "exited"]_vars

\* C25 witness: with the flag still false, the window closed, the worker found the
\* task channel disconnected and the ingest thread failed a send; both returned
BothStoppedByDisconnection ==
  /\ main_pc = "closed"
  /\ ~shutdown_signal
  /\ worker_pc = "exited"
  /\ mqtt_pc = "exited"
  /\ finished # <<>>
  /\ LET last == finished[Len(finished)]
     IN ~(last.kind = "Save" /\ last.outcome = "Disconnected")

\* the least integer not below a / b, for a >= 0 and b > 0
CeilDiv(a, b) == (a + b - 1) \div b

\* C26 (Spec), as claimed: once a rate is calibrated the sensor capacity is
\* ceil(window_seconds * rate), also for a rate that is not a whole number, and the
\* audio capacity is ceil(window_seconds * 16000).
CapacityIsCeiling ==
  IsSome(calculated_sample_rate) =>
    LET r == Unwrap(calculated_sample_rate)
    IN /\ max_samples = CeilDiv(WindowDurationSeconds * r.num, r.den)
       /\ audio_max_samples = CeilDiv(WindowDurationSeconds * AudioSampleRate, 1)

\* C27 (Spec): a frame taken while calibrating, paused or stopped empties both ingest
\* channels and leaves the contents of the sensor and audio buffers as they were;
\* hence a frame changes them only when not calibrating, collecting and not paused.
StateDependentRouting ==
  [][(HandleDataProcessing /\ (is_calibrating \/ ~is_collecting \/ is_paused)) =>
       /\ data_channel' = <<>> /\ audio_channel' = <<>>
       /\ UNCHANGED <<buffer_x, buffer_timestamp, audio_buffer, audio_timestamps>>]_vars

\* C27 witness: the ingest thread blocked on a full audio channel and is still blocked,
\* the channel is empty again, and no collecting frame ever took an audio record:
\* a paused frame consumed the record, and the sensor buffer kept its samples
PausedFrameConsumedAudio ==
  /\ is_paused
  /\ buffer_x # <<>>
  /\ last_audio_metadata = None
  /\ audio_buffer = <<>>
  /\ audio_channel = <<>>
  /\ mqtt_pc = "send" /\ IsSome(mqtt_pending) /\ Unwrap(mqtt_pending).kind = "audio"

\* C28 (SpecAlign): for non-empty streams the aligned accelerometer stream is as long
\* as the input whenever |shift| <= count; when |shift| > count it has exactly |shift|
\* samples, every one a padding sample carrying the values of the first (shift > 0)
\* or the last (shift < 0) input sample.
AlignedLength ==
  (aligned_history # None /\ BothStreamsNonEmpty) =>
    LET n == Abs(QueriedShift)
        edge == IF QueriedShift > 0 THEN acc_data[1] ELSE acc_data[Len(acc_data)]
    IN IF n <= Len(acc_data)
       THEN Len(AlignedAcc) = Len(acc_data)
       ELSE /\ Len(AlignedAcc) = n
            /\ \A i \in 1..n : AlignedAcc[i].vals = edge.vals

\* C28 witness: a session of two different samples was aligned with a forward shift
\* of more than two samples
ShiftExceedsCount ==
  /\ aligned_history # None /\ BothStreamsNonEmpty
  /\ Len(acc_data) = 2 /\ acc_data[1].vals # acc_data[2].vals
  /\ QueriedShift > Len(acc_data)
  /\ Len(AlignedAcc) = QueriedShift

\* the interval has run out on an enabled timer of a collecting, unpaused pipeline
AutoSaveDue ==
  /\ auto_save_enabled
  /\ ~is_calibrating /\ is_collecting /\ ~is_paused
  /\ IsSome(auto_save_last_time)
  /\ (now - Unwrap(auto_save_last_time)) * 1000 >= AutoSaveIntervalMs

\* this step called save_current_window_data_async: a Save task of the current
\* session was queued, or the reason why not was reported
SaveRequested ==
  \/ /\ save_status' = "Saving data..."
     /\ Len(db_task_queue') = Len(db_task_queue) + 1
     /\ db_task_queue'[Len(db_task_queue')].kind = "Save"
     /\ db_task_queue'[Len(db_task_queue')].session_id = current_session_id
     /\ \A i \in 1..Len(db_task_queue) : db_task_queue'[i] = db_task_queue[i]
  \/ /\ save_status' \in {"No data to save", "Database queue is full, try again later",
                          "Database connection lost! Please restart the application."}
     /\ db_task_queue' = db_task_queue

\* C29 (SpecAutoSave): a frame requests a save exactly when auto-save is enabled, the
\* pipeline is collecting, not paused and not calibrating, and the interval of one
\* window length has passed since the timer was set by the button or by the previous
\* request; the request sets the timer to the frame's time; any other frame, and
\* every frame with auto-save disabled, requests nothing and leaves the timer alone.
\* The timer is set whenever auto-save is enabled.
AutoSaveTimer ==
  /\ [][HandleDataProcessing =>
          IF AutoSaveDue
          THEN SaveRequested /\ auto_save_last_time' = Some(now)
          ELSE UNCHANGED <<db_task_queue, next_task_id, save_status, auto_save_last_time>>]_vars
  /\ [](auto_save_enabled <=> IsSome(auto_save_last_time))
  /\ [][auto_save_enabled' # auto_save_enabled =>
          auto_save_last_time' = IF auto_save_enabled' THEN Some(now) ELSE None]_vars

\* C29 witness: two windows were queued by the timer, the second one just now
AutoSavedTwice ==
  /\ auto_save_enabled
  /\ next_task_id = 3
  /\ Len(db_task_queue) = 2
  /\ auto_save_last_time = Some(now)
  /\ save_status = "Saving data..."

\* C30 (SpecPlayer): after any LoadAudio / Play / Pause / Stop calls, once no further
\* call is made, the state in the status cell that get_state reads becomes and stays
\* equal to the worker's playback state; the driving thread's steps leave the sink
\* and the worker's playback state alone.
StatusMirrorsWorker ==
  /\ <>[](current_status.state = playback_state)
  /\ [][(tick_pc' # tick_pc \/ received_status' # received_status
            \/ commands_sent' # commands_sent)
          => UNCHANGED <<sink, playback_state, player_audio_data>>]_vars

\* C30 witness: the audio was loaded, played and paused, every call was handled, and
\* the cell reports the pause
PauseMirrored ==
  /\ commands_sent = MaxCommands
  /\ command_channel = <<>>
  /\ playback_state = "Paused"
  /\ current_status = [state |-> "Paused", is_available |-> TRUE]
  /\ status_channel = <<>> /\ received_status = None /\ tick_pc = "idle"

\* C31 (SpecCalibration), as claimed: once the first sample was processed and the
\* 8 s of the calibration window have passed, continuing frames take the pipeline
\* out of the calibrating state, whatever the arrival pattern was.
CalibrationEnds ==
  (IsSome(calibration_start_time) /\ Elapsed >= CalibrationEndSeconds) ~> ~is_calibrating

\* C32 (SpecCollection): after any sequence of start, stop, pause, resume,
\* complete_calibration and reset_calibration the pipeline is paused only if it is
\* collecting; pause and resume change nothing when it is not collecting, and stop
\* clears both flags.
CollectionStateInvariant ==
  /\ [](is_paused => is_collecting)
  /\ [][((PauseCollection \/ ResumeCollection) /\ ~is_collecting)
          => UNCHANGED <<is_collecting, is_paused>>]_vars
  /\ [][StopCollection => (~is_collecting' /\ ~is_paused')]_vars

\* C32 witness: collection was started and paused by the methods while the pipeline
\* is calibrating, where the button is not shown
PausedWhileCalibrating ==
  /\ is_calibrating
  /\ is_collecting
  /\ is_paused

\* what the trigger reads: collecting, not paused, and a non-empty snapshot
SaveConditions ==
  /\ is_collecting
  /\ ~is_paused
  /\ (CurrentAccelerometerData(buffer_x, buffer_timestamp) # <<>> \/ audio_buffer # <<>>)

SavedSomething(result) ==
  result.error = None /\ (result.acc_saved > 0 \/ result.audio_saved > 0)

\* C34 (SpecSession): a step changes the current session id only if a result
\* without an error and with at least one saved sensor point or audio record is
\* waiting in the result channel and is processed; results with an error or
\* with nothing saved leave it unchanged, and a Save task accepted afterwards
\* carries the current id.
SessionIdChangesOnlyOnSuccess ==
  [][/\ current_session_id' # current_session_id =>
          /\ save_result_channel' = <<>>
          /\ \E i \in DOMAIN save_result_channel : SavedSomething(save_result_channel[i])
     /\ (Len(db_task_queue') > Len(db_task_queue)
           /\ db_task_queue'[Len(db_task_queue')].kind = "Save") =>
          db_task_queue'[Len(db_task_queue')].session_id = current_session_id]_vars

\* C34 witness: a failed save was reported after the clock moved on, the session
\* id is the one the application started with, and a later Save task carries it
FailedSaveKeptSession ==
  /\ save_status = "Error saving acc data"
  /\ Len(finished) >= 1
  /\ now > CalibrationEndSeconds
  /\ current_session_id = 0
  /\ db_task_queue # <<>>
  /\ db_task_queue[Len(db_task_queue)].kind = "Save"
  /\ db_task_queue[Len(db_task_queue)].id > 1
  /\ db_task_queue[Len(db_task_queue)].session_id = 0

\* C35 (SpecPanel), as claimed: whenever the driver stores the rows of a response
\* as the original or as the aligned history data while a session is selected,
\* the rows are those of the selected session.
HistoryDataMatchesSelection ==
  [][/\ (/\ history'.original_history_data # history.original_history_data
         /\ IsSome(history'.original_history_data)
         /\ IsSome(history'.selected_session))
          => history'.original_history_data = history'.selected_session
     /\ (/\ history'.aligned_history_data # history.aligned_history_data
         /\ IsSome(history'.aligned_history_data)
         /\ IsSome(history'.selected_session))
          => history'.aligned_history_data = history'.selected_session]_vars

\* a task of one of the kinds is accepted by the step
Accepted(kinds) ==
  \E i \in DOMAIN db_task_queue' :
    db_task_queue'[i].id >= next_task_id /\ db_task_queue'[i].kind \in kinds

\* the step leaves the receiver alone or clears it
KeptOrCleared(before, after) == after = before \/ after = None

\* C36 (SpecPanel): while the receiver of a usernames query, of a session-list
\* query or of a delete request is pending, no step submits a task of that kind
\* or puts another receiver in its place; a click on Aligned or Original while
\* the aligned or the original receiver is pending submits nothing and leaves
\* that receiver in place.
AtMostOneOutstanding ==
  [][/\ IsSome(history.usernames_result_receiver) =>
          /\ KeptOrCleared(history.usernames_result_receiver,
                           history'.usernames_result_receiver)
          /\ ~Accepted({"GetUsernames"})
     /\ IsSome(history.sessions_result_receiver) =>
          /\ KeptOrCleared(history.sessions_result_receiver,
                           history'.sessions_result_receiver)
          /\ ~Accepted({"GetSessionsByUsernameAndScenario"})
     /\ IsSome(history.delete_result_receiver) =>
          /\ KeptOrCleared(history.delete_result_receiver, history'.delete_result_receiver)
          /\ ~Accepted({"DeleteSession"})
     /\ (AlignedClick /\ IsSome(history.aligned_history_result_receiver)) =>
          /\ history'.aligned_history_result_receiver = history.aligned_history_result_receiver
          /\ ~Accepted(QueryKinds)
     /\ (OriginalClick /\ IsSome(history.history_result_receiver)) =>
          /\ history'.history_result_receiver = history.history_result_receiver
          /\ ~Accepted(QueryKinds)]_vars

\* C36 witness: a session-list request was turned away while the earlier one is
\* still pending, and one such task was accepted in all
SecondSessionsRequestRefused ==
  /\ history.loading_status = "Already loading sessions for user"
  /\ IsSome(history.sessions_result_receiver)
  /\ Cardinality({i \in DOMAIN db_task_queue :
                    db_task_queue[i].kind = "GetSessionsByUsernameAndScenario"}) = 1

\* the members of a list
Members(list) == {list[i] : i \in DOMAIN list}

\* C38 (SpecPanel), as claimed: when a frame processes the result of the delete
\* of session S (and no new session list in the same frame), then after Ok S is
\* not in the list and not selected, the selected session of a non-empty list
\* is the member before S's former position or the first one with the index at
\* its position, and nothing is selected with an empty list; after Err the list,
\* the selection and the index are unchanged.
DeleteResultHandling ==
  [][(/\ HandleHistoryResults
      /\ Ready(history.delete_result_receiver)
      /\ ~Ready(history.sessions_result_receiver)) =>
       LET result == Received(history.delete_result_receiver)
           former == PositionOf(history.history_sessions, result.session_id)
           target == IF IsSome(former) /\ Unwrap(former) > 0 THEN Unwrap(former) - 1 ELSE 0
       IN IF result.ok
          THEN /\ result.session_id \notin Members(history'.history_sessions)
               /\ history'.selected_session # Some(result.session_id)
               /\ IF history'.history_sessions # <<>>
                  THEN /\ history'.current_session_index = target
                       /\ history'.selected_session =
                            Some(history'.history_sessions[target + 1])
                  ELSE history'.selected_session = None
          ELSE /\ history'.history_sessions = history.history_sessions
               /\ history'.selected_session = history.selected_session
               /\ history'.current_session_index = history.current_session_index]_vars

\* C37 (SpecPending), as claimed: every receiver the driver holds for a pending
\* response is eventually cleared.
PendingReceiversReleased ==
  /\ IsSome(history.usernames_result_receiver) ~> history.usernames_result_receiver = None
  /\ IsSome(history.scenarios_result_receiver) ~> history.scenarios_result_receiver = None
  /\ IsSome(history.sessions_result_receiver) ~> history.sessions_result_receiver = None
  /\ IsSome(history.history_result_receiver) ~> history.history_result_receiver = None
  /\ IsSome(history.aligned_history_result_receiver)
       ~> history.aligned_history_result_receiver = None
  /\ IsSome(history.delete_result_receiver) ~> history.delete_result_receiver = None

\* C39 (SpecAlign): the aligned accelerometer stream of a session whose rows are
\* in timestamp order is in timestamp order, across the padding samples, the
\* original samples and the place where they meet, for every shift.
AlignedTimestampsOrdered ==
  aligned_history # None =>
    \A i \in 1..(Len(AlignedAcc) - 1) : AlignedAcc[i].timestamp <= AlignedAcc[i + 1].timestamp

\* C39 witness: a session spanning some time was aligned with a backward shift
\* that keeps original samples in front of the padding
BackwardShiftMeetsPadding ==
  /\ aligned_history # None /\ BothStreamsNonEmpty
  /\ QueriedShift < 0
  /\ -QueriedShift < Len(acc_data)
  /\ acc_data[1].timestamp < acc_data[Len(acc_data)].timestamp

====
